---------------------------- MODULE Spec2Model ----------------------------
(***************************************************************************)
(* Pathway graph synthesis of universal-bland-ai-mcp                       *)
(* (src/src/tools/pathways.ts): the ModularNodeBuilder / ModularPathway-   *)
(* Builder pair, the four template builders, and the                       *)
(* DomainSpecificBranchingBuilder ("Graph Assembler") with its keyword     *)
(* classifier ("Concept Extractor").                                       *)
(*                                                                         *)
(* Strings are modelled as sequences of atoms: a word is one atom, and the *)
(* separators " " and "_" are atoms of their own, so that                  *)
(* replace(/\s+/g,'_'), split(' '), includes() and template literals       *)
(* (concatenation) are computed on the sequence the way the code computes  *)
(* them on characters.  A number inside a template literal is the atom     *)
(* ToString(n).                                                            *)
(***************************************************************************)
EXTENDS Integers, Sequences, FiniteSets, TLC

VARIABLES
    pc,               \* position of the running builder function
    kind,             \* which builder runs: "none", "domain", "sales", ...
    args,             \* the args object handed to the builder function
    nodes,            \* this.nodes
    edges,            \* this.edges
    nodeCount,        \* this.nodeCount
    edgeCount,        \* this.edgeCount
    domain,           \* DomainSpecificBranchingBuilder.domain
    primaryPurpose,   \* DomainSpecificBranchingBuilder.primaryPurpose
    domainConcepts,   \* local domainConcepts of buildFromDescription
    conceptNodeIds,   \* local Map conceptNodeIds, in insertion order
    ids,              \* the local id constants (hubId, resolutionId, ...)
    keyed,            \* specialistNodes / decisionNodes (Record<string,string>)
    idx,              \* index of the running for-loop
    calls,            \* the tool-handler invocations and their locals
    self,             \* the invocation whose synchronous code runs (0: none)
    remote,           \* the remote pathway service
    instance,         \* the builder objects constructed so far
    builders          \* the ModularNodeBuilder objects that are in use

\* the fields and locals of the builder that runs
builderVars == <<kind, args, nodes, edges, nodeCount, edgeCount, domain,
                 primaryPurpose, domainConcepts, conceptNodeIds, ids, keyed, idx>>

\* the handlers and the remote service
handlerVars == <<calls, self, remote, instance>>

vars == <<pc, kind, args, nodes, edges, nodeCount, edgeCount, domain,
          primaryPurpose, domainConcepts, conceptNodeIds, ids, keyed, idx,
          calls, self, remote, instance, builders>>

-----------------------------------------------------------------------------
(* Bounds of the model *)

\* at most this many webhook + knowledge-base + transfer descriptors together
MaxIntegrations == 2
\* at most this many service types / decision points handed to a template
MaxListLen == 2
\* the number of handler invocations that overlap
MaxInvocations == 2
\* at most this many node builders are created, each is chained at most
\* this many times, and at most this many nodes are added
MaxNodeBuilders == 2

-----------------------------------------------------------------------------
(* Strings *)

SP == " "
US == "_"

\* the value of a property that is absent from an object
Undefined == <<"<undefined>">>

\* "w1 w2 ... wn" from <<w1, ..., wn>>
RECURSIVE Words(_)
Words(ws) ==
    IF Len(ws) = 0 THEN <<>>
    ELSE IF Len(ws) = 1 THEN <<ws[1]>>
    ELSE <<ws[1], SP>> \o Words(Tail(ws))

\* String.prototype.toLowerCase on one atom
LowerAtom(a) ==
    CASE a = "I"       -> "i"
      [] a = "URGENT"  -> "urgent"
      [] a = "Family"  -> "family"
      [] a = "Health"  -> "health"
      [] a = "CRM"     -> "crm"
      [] a = "Lookup"  -> "lookup"
      [] a = "FAQ"     -> "faq"
      [] a = "Desk"    -> "desk"
      [] a = "Resolution" -> "resolution"
      [] OTHER         -> a

toLowerCase(text) == [i \in DOMAIN text |-> LowerAtom(text[i])]

\* word w has keyword k as a substring (k a single word)
AtomHas(w, k) ==
    \/ w = k
    \/ <<w, k>> \in { <<"appointment", "app">>, <<"selling", "sell">>,
                      <<"costs", "cost">>, <<"families", "famil">> }

\* String.prototype.includes
includes(text, phrase) ==
    IF Len(phrase) = 1
    THEN \E i \in DOMAIN text : AtomHas(text[i], phrase[1])
    ELSE \E i \in 1..(Len(text) - Len(phrase) + 1) :
             SubSeq(text, i, i + Len(phrase) - 1) = phrase

containsAny(text, keywords) ==
    \E k \in keywords : includes(text, toLowerCase(k))

\* str.replace(/\s+/g, '_'): every run of whitespace becomes one underscore
RECURSIVE replaceWhitespace(_)
replaceWhitespace(text) ==
    IF Len(text) = 0 THEN <<>>
    ELSE IF text[1] = SP
         THEN IF Len(text) > 1 /\ text[2] = SP
              THEN replaceWhitespace(Tail(text))
              ELSE <<US>> \o replaceWhitespace(Tail(text))
         ELSE <<text[1]>> \o replaceWhitespace(Tail(text))

\* text.split(' '): the sequence of the pieces between single spaces
RECURSIVE split(_)
split(text) ==
    IF Len(text) = 0 THEN << <<>> >>
    ELSE IF text[1] = SP THEN << <<>> >> \o split(Tail(text))
    ELSE LET rest == split(Tail(text))
         IN  << <<text[1]>> \o rest[1] >> \o Tail(rest)

-----------------------------------------------------------------------------
(* Concept Extractor *)

extractBusinessType(text) ==
    LET words == split(text)
        hits  == { i \in 1..(Len(words) - 1) :
                     words[i] \in { <<"business">>, <<"company">>, <<"service">>,
                                    <<"sales">>, <<"system">> } }
        first == CHOOSE i \in hits : \A j \in hits : i <= j
    IN  IF hits = {} THEN Words(<<"specialized", "business">>)
        ELSE IF words[first + 1] = <<>> THEN <<"business">>
        ELSE words[first + 1]

\* a classifier that answers with a remembered domain once a builder has
\* been constructed before
extractPrimaryDomain_Remembers(description, name) ==
    IF instance > 1 THEN Words(<<"real", "estate">>)
    ELSE extractBusinessType(toLowerCase(description \o <<SP>> \o name))

extractPrimaryDomain(description, name) ==
    LET combined == toLowerCase(description \o <<SP>> \o name)
    IN  IF containsAny(combined, { Words(<<"health", "insurance">>),
                                   Words(<<"medical", "insurance">>),
                                   <<"healthcare">>,
                                   Words(<<"insurance", "sales">>) })
        THEN Words(<<"health", "insurance">>)
        ELSE IF containsAny(combined, { Words(<<"real", "estate">>), <<"property">>,
                                        Words(<<"home", "sales">>), <<"mortgage">>,
                                        <<"realtor">> })
        THEN Words(<<"real", "estate">>)
        ELSE IF containsAny(combined, { <<"financial">>, <<"investment">>,
                                        <<"banking">>, <<"loans">>, <<"finance">> })
        THEN Words(<<"financial", "services">>)
        ELSE IF containsAny(combined, { <<"ecommerce">>, Words(<<"online", "store">>),
                                        <<"shopping">>, <<"retail">>, <<"products">> })
        THEN <<"e-commerce">>
        ELSE IF containsAny(combined, { <<"saas">>, <<"software">>, <<"technology">>,
                                        <<"platform">>, <<"app">> })
        THEN <<"technology">>
        ELSE extractBusinessType(combined)

extractPrimaryPurpose(description) ==
    LET lowerDesc == toLowerCase(description)
    IN  IF containsAny(lowerDesc, { <<"sales">>, <<"selling">>, <<"sell">> })
        THEN <<"sales">>
        ELSE IF containsAny(lowerDesc, { <<"support">>, <<"service">>, <<"help">> })
        THEN Words(<<"customer", "support">>)
        ELSE IF containsAny(lowerDesc, { <<"booking">>, <<"appointment">>, <<"schedule">> })
        THEN Words(<<"appointment", "booking">>)
        ELSE IF containsAny(lowerDesc, { <<"consultation">>, <<"advisory">>, <<"advice">> })
        THEN <<"consultation">>
        ELSE IF containsAny(lowerDesc, { <<"information">>, <<"inquiry">>, <<"questions">> })
        THEN <<"information">>
        ELSE Words(<<"specialized", "assistance">>)

\* a concept literal; type is the slug with its underscores as atoms
Concept(typeWords, condition, descr, priority) ==
    [ type        |-> replaceWhitespace(Words(typeWords)),
      condition   |-> <<condition>>,
      description |-> <<descr>>,
      priority    |-> priority ]

\* the rule table of extractDomainSpecificConcepts, in source order:
\* <<domain the rule belongs to (<<>> = any), keywords, concept pushed>>
ConceptRules ==
    LET hi == Words(<<"health", "insurance">>) IN
    << [ dom |-> hi,
         keys |-> { <<"individual">>, <<"single">>, <<"personal">> },
         concept |-> Concept(<<"individual", "plans">>,
                             "needs individual health insurance coverage",
                             "Individual health insurance plans and coverage options", 1) ],
       [ dom |-> hi,
         keys |-> { <<"family">>, <<"spouse">>, <<"children">>, <<"dependents">> },
         concept |-> Concept(<<"family", "coverage">>,
                             "needs family health insurance coverage",
                             "Family health insurance plans and coverage options", 1) ],
       [ dom |-> hi,
         keys |-> { <<"business">>, <<"group">>, <<"employer">>, <<"employees">> },
         concept |-> Concept(<<"group", "business", "plans">>,
                             "needs business or group health insurance",
                             "Business and group health insurance solutions", 2) ],
       [ dom |-> hi,
         keys |-> { <<"medicare">>, <<"senior">>, <<"retirement">>, <<"65">> },
         concept |-> Concept(<<"medicare", "senior", "plans">>,
                             "needs Medicare or senior health coverage",
                             "Medicare and senior health insurance options", 1) ],
       [ dom |-> hi,
         keys |-> { <<"pre-existing">>, Words(<<"medical", "condition">>),
                    <<"chronic">>, <<"specialist">> },
         concept |-> Concept(<<"special", "medical", "needs">>,
                             "has special medical needs or pre-existing conditions",
                             "Specialized coverage for medical conditions", 1) ],
       [ dom |-> hi,
         keys |-> { <<"budget">>, <<"affordable">>, <<"cost">>, <<"cheap">>,
                    <<"low-cost">> },
         concept |-> Concept(<<"budget", "plans">>,
                             "looking for budget-friendly insurance options",
                             "Affordable health insurance solutions", 2) ],
       [ dom |-> hi,
         keys |-> { <<"premium">>, <<"comprehensive">>, Words(<<"best", "coverage">>),
                    <<"top-tier">> },
         concept |-> Concept(<<"premium", "coverage">>,
                             "wants premium or comprehensive coverage",
                             "Premium health insurance with comprehensive benefits", 2) ],
       [ dom |-> <<>>,
         keys |-> { <<"urgent">>, <<"immediate">>, <<"emergency">>, <<"asap">>,
                    Words(<<"right", "away">>) },
         concept |-> Concept(<<"urgent", "assistance">>,
                             "needs immediate or urgent assistance",
                             "Urgent assistance and immediate support", 0) ] >>

\* extractDomainSpecificConcepts returning the concepts in push order
sortByPriority_PushOrder(concepts) == concepts

\* Array.prototype.sort((a, b) => a.priority - b.priority): a stable sort
RECURSIVE insertByPriority(_, _)
insertByPriority(sorted, c) ==
    IF Len(sorted) = 0 THEN <<c>>
    ELSE IF sorted[Len(sorted)].priority - c.priority <= 0
         THEN Append(sorted, c)
         ELSE Append(insertByPriority(SubSeq(sorted, 1, Len(sorted) - 1), c),
                     sorted[Len(sorted)])

RECURSIVE sortByPriority(_)
sortByPriority(concepts) ==
    IF Len(concepts) = 0 THEN <<>>
    ELSE insertByPriority(sortByPriority(SubSeq(concepts, 1, Len(concepts) - 1)),
                          concepts[Len(concepts)])

\* the concepts pushed by the first n rules, in push order
RECURSIVE pushedConcepts(_, _, _)
pushedConcepts(lowerDesc, dom, n) ==
    IF n = 0 THEN <<>>
    ELSE LET rule == ConceptRules[n]
             before == pushedConcepts(lowerDesc, dom, n - 1)
         IN  IF (rule.dom = <<>> \/ rule.dom = dom) /\ containsAny(lowerDesc, rule.keys)
             THEN Append(before, rule.concept)
             ELSE before

extractDomainSpecificConcepts(description, dom) ==
    sortByPriority(pushedConcepts(toLowerCase(description), dom, Len(ConceptRules)))

-----------------------------------------------------------------------------
(* Node records and the ModularNodeBuilder *)

\* one entry of extractVars: [varName, varType, varDescription, required];
\* the description is display text and is left out
Var(nameText, varType, required) ==
    [ name |-> nameText, type |-> varType, required |-> required ]

\* a PathwayNodeData with every optional property absent (name, prompt, text
\* and condition are display text that nothing in the builders reads back)
EmptyData ==
    [ type           |-> "undefined",
      isStart        |-> FALSE,
      isGlobal       |-> FALSE,
      extractVars    |-> <<>>,
      webhookUrl     |-> Undefined,
      webhookMethod  |-> "undefined",
      kb             |-> Undefined,
      transferNumber |-> Undefined,
      dynamic_data   |-> FALSE,
      custom_tools   |-> FALSE,
      ai_features    |-> FALSE,
      flow_control   |-> FALSE,
      analytics      |-> FALSE,
      fine_tuning    |-> FALSE ]

\* new ModularNodeBuilder(id, name)
ModularNodeBuilder(id) ==
    [ nodeId |-> id, nodeType |-> "Default", nodeData |-> EmptyData ]

asDefault(b)  == [b EXCEPT !.nodeType = "Default"]
asWebhook(b, url) ==
    [b EXCEPT !.nodeType = "Webhook", !.nodeData.webhookUrl = url,
              !.nodeData.webhookMethod = "POST"]
asKnowledgeBase(b, kbContent) ==
    [b EXCEPT !.nodeType = "Knowledge Base", !.nodeData.kb = kbContent]
asTransfer(b, phoneNumber) ==
    [b EXCEPT !.nodeType = "Transfer Node", !.nodeData.transferNumber = phoneNumber]
asEndCall(b)  == [b EXCEPT !.nodeType = "End Call"]
asStart(b)    == [b EXCEPT !.nodeData.isStart = TRUE]
asGlobal(b)   == [b EXCEPT !.nodeData.isGlobal = TRUE]
withVariableExtraction(b, extractVars) == [b EXCEPT !.nodeData.extractVars = extractVars]
withFineTuning(b)  == [b EXCEPT !.nodeData.fine_tuning = TRUE]
withDynamicData(b) == [b EXCEPT !.nodeData.dynamic_data = TRUE]
withCustomTools(b) == [b EXCEPT !.nodeData.custom_tools = TRUE]
withAIFeatures(b)  == [b EXCEPT !.nodeData.ai_features = TRUE]
withFlowControl(b) == [b EXCEPT !.nodeData.flow_control = TRUE]
withAnalytics(b)   == [b EXCEPT !.nodeData.analytics = TRUE]

\* build() that leaves the type out of the data payload
build_WithoutDataType(b) ==
    [ id   |-> b.nodeId,
      type |-> b.nodeType,
      data |-> b.nodeData ]

\* ModularNodeBuilder.build
build(b) ==
    [ id   |-> b.nodeId,
      type |-> b.nodeType,
      data |-> [b.nodeData EXCEPT !.type = b.nodeType] ]

-----------------------------------------------------------------------------
(* DomainSpecificBranchingBuilder: node and edge construction *)

HealthInsurance == Words(<<"health", "insurance">>)

\* createDomainSpecificHub without isStart
createDomainSpecificHub_NotStart(dom, count) ==
    LET hubId == replaceWhitespace(dom) \o <<US, "hub", US, ToString(count)>>
    IN  [ node |-> [ id   |-> hubId,
                     type |-> "Default",
                     data |-> [EmptyData EXCEPT !.type = "Default"] ],
          id   |-> hubId ]

\* each create* operator yields the node it pushes and the id it returns
createDomainSpecificHub(dom, count) ==
    LET hubId == replaceWhitespace(dom) \o <<US, "hub", US, ToString(count)>>
    IN  [ node |-> [ id   |-> hubId,
                     type |-> "Default",
                     data |-> [EmptyData EXCEPT
                                 !.type = "Default",
                                 !.isStart = TRUE,
                                 !.extractVars =
                                   << Var(replaceWhitespace(dom) \o <<US, "need">>,
                                          "string", "undefined"),
                                      Var(<<"customer_category">>, "string", "undefined"),
                                      Var(<<"urgency_level">>, "string", "undefined"),
                                      Var(<<"budget_range">>, "string", "undefined") >>] ],
          id   |-> hubId ]

getDomainVariablesForConcept(conceptType, dom) ==
    LET baseVars == << Var(conceptType \o <<US, "preference">>, "string", "true"),
                       Var(conceptType \o <<US, "timeline">>, "string", "false") >>
    IN  IF dom = HealthInsurance
        THEN CASE conceptType = <<"individual", US, "plans">> ->
                    baseVars \o
                    << Var(<<"current_health_status">>, "string", "true"),
                       Var(<<"preferred_deductible">>, "string", "false"),
                       Var(<<"doctor_preferences">>, "string", "false"),
                       Var(<<"monthly_budget">>, "string", "true"),
                       Var(<<"prescription_medications">>, "string", "false"),
                       Var(<<"coverage_priorities">>, "string", "true") >>
               [] conceptType = <<"family", US, "coverage">> ->
                    baseVars \o
                    << Var(<<"family_size">>, "integer", "true"),
                       Var(<<"ages_of_dependents">>, "string", "true"),
                       Var(<<"maternity_needs">>, "boolean", "false"),
                       Var(<<"pediatric_needs">>, "string", "false"),
                       Var(<<"family_medical_history">>, "string", "false"),
                       Var(<<"childcare_providers">>, "string", "false") >>
               [] conceptType = <<"medicare", US, "senior", US, "plans">> ->
                    baseVars \o
                    << Var(<<"age">>, "integer", "true"),
                       Var(<<"current_medicare_status">>, "string", "true"),
                       Var(<<"prescription_needs">>, "string", "false"),
                       Var(<<"supplement_interest">>, "boolean", "false"),
                       Var(<<"retirement_status">>, "string", "false"),
                       Var(<<"healthcare_frequency">>, "string", "false") >>
               [] conceptType = <<"group", US, "business", US, "plans">> ->
                    baseVars \o
                    << Var(<<"business_size">>, "integer", "true"),
                       Var(<<"business_type">>, "string", "true"),
                       Var(<<"current_coverage">>, "string", "false"),
                       Var(<<"budget_per_employee">>, "string", "false"),
                       Var(<<"employee_demographics">>, "string", "false"),
                       Var(<<"coverage_requirements">>, "string", "false") >>
               [] OTHER -> baseVars
        ELSE baseVars

\* createDomainConceptNode returning an id re-derived from the concept name
\* instead of the id of the node it pushed
createDomainConceptNode_NameDerivedId(concept, dom, count) ==
    LET nodeId == concept.type \o <<US, "specialist", US, ToString(count)>>
        b0 == withVariableExtraction(asDefault(ModularNodeBuilder(nodeId)),
                                     getDomainVariablesForConcept(concept.type, dom))
    IN  [ node |-> build(b0), id |-> concept.type \o <<US, "specialist">> ]

createDomainConceptNode(concept, dom, count) ==
    LET nodeId == concept.type \o <<US, "specialist", US, ToString(count)>>
        conceptVars == getDomainVariablesForConcept(concept.type, dom)
        b0 == withAnalytics(withFlowControl(withAIFeatures(
                withVariableExtraction(asDefault(ModularNodeBuilder(nodeId)),
                                       conceptVars))))
        nodeBuilder == IF dom = HealthInsurance
                       THEN withFineTuning(withCustomTools(withDynamicData(b0)))
                       ELSE b0
    IN  [ node |-> build(nodeBuilder), id |-> nodeId ]

\* integrationNodeId without the counter suffix
integrationNodeId_NoCounter(dom, name, count) ==
    replaceWhitespace(dom) \o <<US>> \o toLowerCase(replaceWhitespace(name))

\* `${domain}_${x.name}_${++nodeCount}` of the webhook / KB / transfer nodes
integrationNodeId(dom, name, count) ==
    replaceWhitespace(dom) \o <<US>> \o toLowerCase(replaceWhitespace(name))
        \o <<US, ToString(count)>>

createDomainWebhookNode(webhook, dom, count) ==
    LET nodeId == integrationNodeId(dom, webhook.name, count)
    IN  [ node |-> [ id   |-> nodeId,
                     type |-> "Webhook",
                     data |-> [EmptyData EXCEPT
                                 !.type = "Webhook",
                                 !.webhookUrl = webhook.url,
                                 !.webhookMethod = "POST"] ],
          id   |-> nodeId ]

createDomainKnowledgeBaseNode(kb, dom, count) ==
    LET nodeId == integrationNodeId(dom, kb.name, count)
    IN  [ node |-> [ id   |-> nodeId,
                     type |-> "Knowledge Base",
                     data |-> [EmptyData EXCEPT
                                 !.type = "Knowledge Base",
                                 !.kb = kb.content] ],
          id   |-> nodeId ]

createDomainTransferNode(transfer, dom, count) ==
    LET nodeId == integrationNodeId(dom, transfer.name, count)
    IN  [ node |-> [ id   |-> nodeId,
                     type |-> "Transfer Node",
                     data |-> [EmptyData EXCEPT
                                 !.type = "Transfer Node",
                                 !.transferNumber = transfer.number] ],
          id   |-> nodeId ]

createDomainResolutionNode(dom, count) ==
    LET nodeId == replaceWhitespace(dom) \o <<US, "resolution", US, ToString(count)>>
    IN  [ node |-> [ id   |-> nodeId,
                     type |-> "Default",
                     data |-> [EmptyData EXCEPT
                                 !.type = "Default",
                                 !.extractVars =
                                   << Var(replaceWhitespace(dom) \o <<US, "satisfaction">>,
                                          "string", "undefined"),
                                      Var(<<"additional", US>> \o replaceWhitespace(dom)
                                            \o <<US, "needs">>, "boolean", "undefined"),
                                      Var(<<"next_steps">>, "string", "undefined") >>] ],
          id   |-> nodeId ]

\* createDomainCompletionNode pushing a Default node instead of End Call
createDomainCompletionNode_Default(dom, count) ==
    LET nodeId == replaceWhitespace(dom) \o <<US, "completion", US, ToString(count)>>
    IN  [ node |-> [ id   |-> nodeId,
                     type |-> "Default",
                     data |-> [EmptyData EXCEPT !.type = "Default"] ],
          id   |-> nodeId ]

createDomainCompletionNode(dom, count) ==
    LET nodeId == replaceWhitespace(dom) \o <<US, "completion", US, ToString(count)>>
    IN  [ node |-> [ id   |-> nodeId,
                     type |-> "End Call",
                     data |-> [EmptyData EXCEPT !.type = "End Call"] ],
          id   |-> nodeId ]

\* createConditionalEdge with an id that leaves the counter out
createConditionalEdge_NoCounter(dom, count, sourceId, targetId, condition) ==
    [ id     |-> replaceWhitespace(dom) \o <<US, "edge">>,
      source |-> sourceId,
      target |-> targetId,
      label  |-> condition ]

\* the edge createConditionalEdge pushes
createConditionalEdge(dom, count, sourceId, targetId, condition) ==
    [ id     |-> replaceWhitespace(dom) \o <<US, "edge", US, ToString(count)>>,
      source |-> sourceId,
      target |-> targetId,
      label  |-> condition ]

\* pushes the edges es[1..n] (given as <<source, target, label>>) in order
RECURSIVE pushEdges(_, _, _, _)
pushEdges(edgeSeq, count, dom, es) ==
    IF Len(es) = 0 THEN edgeSeq
    ELSE pushEdges(Append(edgeSeq,
                          createConditionalEdge(dom, count + 1, es[1][1], es[1][2], es[1][3])),
                   count + 1, dom, Tail(es))

-----------------------------------------------------------------------------
(* Inputs *)

\* every sequence over S of length at most n
SeqsUpTo(S, n) == UNION { [1..m -> S] : m \in 0..n }

\* descriptions the handlers' schema admits (20 to 5000 characters)
Descriptions ==
    { Words(<<"I", "need", "insurance", "right", "away", "for", "my", "family">>),
      Words(<<"health", "insurance", "for", "a", "family", "of", "four", "spouse",
              "and", "children", "affordable", "options">>),
      Words(<<"Health", "insurance", "sales", "individual", "group", "medicare",
              "chronic", "budget", "premium", "URGENT">>),
      Words(<<"a", "company", "helpline", "for", "plumbing", "emergency">>),
      Words(<<"answer", "callers", "and", "take", "a", "message">>),
      Words(<<"real", "estate", "listings", "for", "families">>),
      Words(<<"family", "of", "four", "spouse", "and", "children", "affordable",
              "options">>) }

PathwayNames ==
    { <<"helper">>, Words(<<"Health", "insurance", "line">>) }

\* webhook-integration descriptors {name, url}
WebhookDescriptors ==
    { [ name |-> Words(<<"CRM", "Lookup">>), url |-> <<"https://crm.example/hook">> ],
      [ name |-> Words(<<"CRM", "Lookup">>), url |-> Undefined ],
      [ name |-> <<"Resolution">>,           url |-> <<"https://res.example/hook">> ],
      [ name |-> Undefined,                  url |-> <<"https://crm.example/hook">> ] }

\* knowledge-base descriptors {name, content}
KnowledgeBaseDescriptors ==
    { [ name |-> <<"FAQ">>,  content |-> <<"opening hours and prices">> ],
      [ name |-> <<"FAQ">>,  content |-> Undefined ],
      [ name |-> Undefined,  content |-> <<"opening hours and prices">> ] }

\* transfer descriptors {name, number}
TransferDescriptors ==
    { [ name |-> Words(<<"Help", "Desk">>), number |-> <<"+15550100">> ],
      [ name |-> Words(<<"Help", "Desk">>), number |-> Undefined ],
      [ name |-> Undefined,                 number |-> <<"+15550100">> ] }

\* an args object with nothing set
NoArgs ==
    [ name                   |-> <<>>,
      description            |-> <<>>,
      webhook_integrations   |-> <<>>,
      knowledge_bases        |-> <<>>,
      transfer_numbers       |-> <<>>,
      service_types          |-> <<>>,
      decision_points        |-> <<>>,
      transfer_number        |-> Undefined,
      escalation_number      |-> Undefined,
      knowledge_base_content |-> Undefined,
      required_data_points   |-> <<>>,
      global_fallbacks       |-> FALSE,
      enable_dynamic_data    |-> TRUE,
      enable_custom_tools    |-> TRUE,
      enable_ai_features     |-> TRUE,
      enable_fine_tuning     |-> TRUE,
      enable_analytics       |-> TRUE ]

\* the descriptor objects and their JSON texts, per argument (1:
\* webhook_integrations, 2: knowledge_bases, 3: transfer_numbers)
ObjectTable(k) ==
    CASE k = 1 ->
           << << "{\"name\":\"CRM Lookup\",\"url\":\"https://crm.example/hook\"}",
                 [ name |-> Words(<<"CRM", "Lookup">>), url |-> <<"https://crm.example/hook">> ] >>,
              << "{\"name\":\"CRM Lookup\"}",
                 [ name |-> Words(<<"CRM", "Lookup">>), url |-> Undefined ] >>,
              << "{\"name\":\"Resolution\",\"url\":\"https://res.example/hook\"}",
                 [ name |-> <<"Resolution">>, url |-> <<"https://res.example/hook">> ] >>,
              << "{\"url\":\"https://crm.example/hook\"}",
                 [ name |-> Undefined, url |-> <<"https://crm.example/hook">> ] >> >>
      [] k = 2 ->
           << << "{\"name\":\"FAQ\",\"content\":\"opening hours and prices\"}",
                 [ name |-> <<"FAQ">>, content |-> <<"opening hours and prices">> ] >>,
              << "{\"name\":\"FAQ\"}",
                 [ name |-> <<"FAQ">>, content |-> Undefined ] >>,
              << "{\"content\":\"opening hours and prices\"}",
                 [ name |-> Undefined, content |-> <<"opening hours and prices">> ] >> >>
      [] k = 3 ->
           << << "{\"name\":\"Help Desk\",\"number\":\"+15550100\"}",
                 [ name |-> Words(<<"Help", "Desk">>), number |-> <<"+15550100">> ] >>,
              << "{\"name\":\"Help Desk\"}",
                 [ name |-> Words(<<"Help", "Desk">>), number |-> Undefined ] >>,
              << "{\"number\":\"+15550100\"}",
                 [ name |-> Undefined, number |-> <<"+15550100">> ] >>,
              << "{\"name\":\"Front Desk\",\"number\":\"+15550100\"}",
                 [ name |-> Words(<<"Front", "Desk">>), number |-> <<"+15550100">> ] >> >>

\* JSON.stringify of an array of descriptors of argument k: the text as its
\* tokens "[", object text, ",", ..., "]"
RECURSIVE JSONstringifyItems(_, _)
JSONstringifyItems(k, list) ==
    IF Len(list) = 0 THEN <<>>
    ELSE LET t == ObjectTable(k)
             i == CHOOSE j \in DOMAIN t : t[j][2] = list[1]
         IN  (IF Len(list) = 1 THEN <<t[i][1]>> ELSE <<t[i][1], ",">>)
               \o JSONstringifyItems(k, Tail(list))

JSONstringify(k, list) == <<"[">> \o JSONstringifyItems(k, list) \o <<"]">>

\* JSON.parse of the text of argument k: ok is FALSE where JSON.parse throws
\* a SyntaxError
JSONparse(k, text) ==
    LET t      == ObjectTable(k)
        inner  == SubSeq(text, 2, Len(text) - 1)
        isObj(x) == \E j \in DOMAIN t : t[j][1] = x
        objOf(x) == t[CHOOSE j \in DOMAIN t : t[j][1] = x][2]
        wellFormed ==
            /\ Len(text) >= 2
            /\ text[1] = "["
            /\ text[Len(text)] = "]"
            /\ Len(inner) = 0 \/ Len(inner) % 2 = 1
            /\ \A j \in DOMAIN inner :
                   IF j % 2 = 1 THEN isObj(inner[j]) ELSE inner[j] = ","
    IN  IF wellFormed
        THEN [ ok |-> TRUE,
               value |-> [ j \in 1..((Len(inner) + 1) \div 2) |-> objOf(inner[2 * j - 1]) ] ]
        ELSE [ ok |-> FALSE, value |-> <<>> ]

\* the texts the README shows as the wrong way to pass argument k
WrongWay(k) ==
    CASE k = 1 -> <<"crm_integration:", "{url:", "'https://api.com'}">>
      [] k = 2 -> <<"technical_docs", ",", "sales_info">>
      [] k = 3 -> <<"sales:", "+1-800-SALES">>

\* a string left in place of the list: iterating it yields characters, which
\* have no name
parseOrEmpty_KeepsText(k, text) ==
    IF JSONparse(k, text).ok THEN JSONparse(k, text).value
    ELSE << [ name |-> Undefined, url |-> Undefined, content |-> Undefined,
              number |-> Undefined ] >>

\* try { parsed = JSON.parse(text) } catch (e) { parsed = [] }
parseOrEmpty(k, text) ==
    IF JSONparse(k, text).ok THEN JSONparse(k, text).value ELSE <<>>

-----------------------------------------------------------------------------
(* The pathway-creation tools *)

DomainTools   == { "create_modular_pathway", "create_unlimited_complexity_pathway" }
TemplateTools == { "create_enterprise_sales_pathway",
                   "create_ai_customer_service_pathway",
                   "create_intelligent_appointment_system",
                   "create_custom_workflow_pathway" }
Tools == DomainTools \cup TemplateTools

\* more than one invocation is under way: the inputs then come from the
\* small sets below
Overlapping == Cardinality(DOMAIN calls) > 1

OverlapIntegrations ==
    { << << [ name |-> Words(<<"CRM", "Lookup">>), url |-> <<"https://crm.example/hook">> ] >>,
         << [ name |-> <<"FAQ">>, content |-> <<"opening hours and prices">> ] >>,
         << [ name |-> Words(<<"Front", "Desk">>), number |-> <<"+15550100">> ] >> >>,
      << << [ name |-> Undefined, url |-> <<"https://crm.example/hook">> ] >>, <<>>, <<>> >> }

DescriptionInputs ==
    IF Overlapping
    THEN { Words(<<"I", "need", "insurance", "right", "away", "for", "my", "family">>) }
    ELSE Descriptions

NameInputs == IF Overlapping THEN { <<"helper">> } ELSE PathwayNames

\* <<webhook_integrations, knowledge_bases, transfer_numbers>>
IntegrationInputs ==
    IF Overlapping
    THEN OverlapIntegrations
    ELSE { <<w, k, t>> : w \in SeqsUpTo(WebhookDescriptors, MaxIntegrations),
                         k \in SeqsUpTo(KnowledgeBaseDescriptors, MaxIntegrations),
                         t \in SeqsUpTo(TransferDescriptors, MaxIntegrations) }

\* the three arguments as the caller passes them: JSON texts, or, for the
\* arguments in broken, the README's wrong-way text
RawIntegrationInputs ==
    { [ k \in 1..3 |-> IF k \in broken THEN WrongWay(k)
                                        ELSE JSONstringify(k, given[k]) ] :
        <<given, broken>> \in
          { gb \in IntegrationInputs \X SUBSET (1..3) :
              LET total == Len(gb[1][1]) + Len(gb[1][2]) + Len(gb[1][3])
              IN  IF Overlapping THEN gb[2] = {}
                  ELSE /\ total <= MaxIntegrations
                       /\ gb[2] # {} => /\ total <= 1
                                        /\ \A k \in gb[2] : gb[1][k] = <<>> } }

\* enable_dynamic_data, enable_custom_tools, enable_ai_features,
\* enable_fine_tuning, enable_analytics
ToggleInputs ==
    IF Overlapping THEN { <<TRUE, TRUE, TRUE, TRUE, TRUE>> }
    ELSE { <<TRUE, TRUE, TRUE, TRUE, TRUE>>,
           <<TRUE, TRUE, FALSE, TRUE, TRUE>>,
           <<FALSE, FALSE, FALSE, FALSE, FALSE>> }

ListInputs(S) == IF Overlapping THEN { << (CHOOSE x \in S : TRUE) >> }
                 ELSE SeqsUpTo(S, MaxListLen)

OptionInputs(S) == IF Overlapping THEN { Undefined } ELSE S

\* the synchronous code of an invocation of one of the tools of T has reached
\* its builder call
Constructing(T) ==
    /\ self # 0
    /\ calls[self].st = "building"
    /\ calls[self].tool \in T

-----------------------------------------------------------------------------
(* DomainSpecificBranchingBuilder.buildFromDescription *)

\* Map.prototype.set on a Map kept as its entries <<key, value>> in insertion order
mapSet(m, key, value) ==
    IF \E i \in DOMAIN m : m[i][1] = key
    THEN [i \in DOMAIN m |-> IF m[i][1] = key THEN <<key, value>> ELSE m[i]]
    ELSE Append(m, <<key, value>>)

\* Map.prototype.has
mapHas(m, key) == \E i \in DOMAIN m : m[i][1] = key

\* the for-loops of steps 4-7 in source order, and the list each runs over
LoopLen(phase, a, concepts) ==
    CASE phase = "concepts"  -> Len(concepts)
      [] phase = "webhooks"  -> Len(a.webhook_integrations)
      [] phase = "kbs"       -> Len(a.knowledge_bases)
      [] phase = "transfers" -> Len(a.transfer_numbers)

PhaseOrder == <<"concepts", "webhooks", "kbs", "transfers">>

\* the first loop from position i on whose list is not empty; step 8 otherwise
RECURSIVE firstPhaseFrom(_, _, _)
firstPhaseFrom(i, a, concepts) ==
    IF i > Len(PhaseOrder) THEN "resolution"
    ELSE IF LoopLen(PhaseOrder[i], a, concepts) > 0 THEN PhaseOrder[i]
    ELSE firstPhaseFrom(i + 1, a, concepts)

\* leaving iteration idx of loop number i
Advance(i) ==
    IF idx < LoopLen(PhaseOrder[i], args, domainConcepts)
    THEN /\ idx' = idx + 1
         /\ pc' = pc
    ELSE /\ idx' = 1
         /\ pc' = firstPhaseFrom(i + 1, args, domainConcepts)

\* steps 1-3: classify the description and create the hub
StartBuildFromDescription ==
    /\ pc = "idle"
    /\ Constructing(DomainTools)
    /\ \E description \in DescriptionInputs, name \in NameInputs,
          toggles \in ToggleInputs :
         /\ calls[self].tool = "create_modular_pathway" => toggles = <<TRUE, TRUE, TRUE, TRUE, TRUE>>
         /\ LET given == calls[self].parsedArgs
                a   == [NoArgs EXCEPT !.name = name, !.description = description,
                                      !.webhook_integrations = given[1],
                                      !.knowledge_bases = given[2],
                                      !.transfer_numbers = given[3],
                                      !.enable_dynamic_data = toggles[1],
                                      !.enable_custom_tools = toggles[2],
                                      !.enable_ai_features = toggles[3],
                                      !.enable_fine_tuning = toggles[4],
                                      !.enable_analytics = toggles[5]]
                dom == extractPrimaryDomain(description, name)
                cs  == extractDomainSpecificConcepts(description, dom)
                hub == createDomainSpecificHub(dom, nodeCount + 1)
            IN  /\ args' = a
                /\ domain' = dom
                /\ primaryPurpose' = extractPrimaryPurpose(description)
                /\ domainConcepts' = cs
                /\ nodes' = Append(nodes, hub.node)
                /\ nodeCount' = nodeCount + 1
                /\ ids' = ("hubId" :> hub.id) @@ ids
                /\ pc' = firstPhaseFrom(1, a, cs)
    /\ kind' = "domain"
    /\ idx' = 1
    /\ UNCHANGED <<edges, edgeCount, conceptNodeIds, keyed>>
    /\ UNCHANGED <<handlerVars, builders>>

\* step 4, one iteration
AddConcept ==
    /\ pc = "concepts"
    /\ LET concept == domainConcepts[idx]
           r == createDomainConceptNode(concept, domain, nodeCount + 1)
       IN  /\ nodes' = Append(nodes, r.node)
           /\ nodeCount' = nodeCount + 1
           /\ conceptNodeIds' = mapSet(conceptNodeIds, concept.type, r.id)
           /\ edges' = Append(edges, createConditionalEdge(domain, edgeCount + 1,
                                         ids.hubId, r.id, concept.condition))
           /\ edgeCount' = edgeCount + 1
    /\ Advance(1)
    /\ UNCHANGED <<kind, args, domain, primaryPurpose, domainConcepts, ids, keyed>>
    /\ UNCHANGED <<handlerVars, builders>>

\* webhook.name.replace(...) on a descriptor without a name: a TypeError leaves
\* buildFromDescription before anything is pushed or counted
Throw ==
    /\ pc' = "threw"
    /\ UNCHANGED <<kind, args, nodes, edges, nodeCount, edgeCount, domain,
                   primaryPurpose, domainConcepts, conceptNodeIds, ids, keyed, idx>>

\* step 5 with a guard that passes over a descriptor without a url
AddWebhook_SkipsMissingUrl ==
    /\ pc = "webhooks"
    /\ LET webhook == args.webhook_integrations[idx]
           r == createDomainWebhookNode(webhook, domain, nodeCount + 1)
       IN  IF webhook.name = Undefined
           THEN Throw
           ELSE /\ IF webhook.url = Undefined
                   THEN UNCHANGED <<nodes, nodeCount, edges, edgeCount>>
                   ELSE /\ nodes' = Append(nodes, r.node)
                        /\ nodeCount' = nodeCount + 1
                        /\ edges' = Append(edges,
                                       createConditionalEdge(domain, edgeCount + 1,
                                         ids.hubId, r.id,
                                         <<"needs", SP>> \o toLowerCase(webhook.name)))
                        /\ edgeCount' = edgeCount + 1
                /\ Advance(2)
                /\ UNCHANGED <<kind, args, domain, primaryPurpose, domainConcepts,
                               conceptNodeIds, ids, keyed>>
    /\ UNCHANGED <<handlerVars, builders>>

\* step 5, one iteration
AddWebhook ==
    /\ pc = "webhooks"
    /\ LET webhook == args.webhook_integrations[idx]
           r == createDomainWebhookNode(webhook, domain, nodeCount + 1)
       IN  IF webhook.name = Undefined
           THEN Throw
           ELSE /\ nodes' = Append(nodes, r.node)
                /\ nodeCount' = nodeCount + 1
                /\ edges' = Append(edges, createConditionalEdge(domain, edgeCount + 1,
                                     ids.hubId, r.id,
                                     <<"needs", SP>> \o toLowerCase(webhook.name)))
                /\ edgeCount' = edgeCount + 1
                /\ Advance(2)
                /\ UNCHANGED <<kind, args, domain, primaryPurpose, domainConcepts,
                               conceptNodeIds, ids, keyed>>
    /\ UNCHANGED <<handlerVars, builders>>

\* step 6 with a guard that passes over a descriptor without content
AddKnowledgeBase_SkipsMissingContent ==
    /\ pc = "kbs"
    /\ LET kb == args.knowledge_bases[idx]
           r == createDomainKnowledgeBaseNode(kb, domain, nodeCount + 1)
       IN  IF kb.name = Undefined
           THEN Throw
           ELSE /\ IF kb.content = Undefined
                   THEN UNCHANGED <<nodes, nodeCount, edges, edgeCount>>
                   ELSE /\ nodes' = Append(nodes, r.node)
                        /\ nodeCount' = nodeCount + 1
                        /\ edges' = Append(edges,
                                       createConditionalEdge(domain, edgeCount + 1,
                                         ids.hubId, r.id, <<"asks">>))
                        /\ edgeCount' = edgeCount + 1
                /\ Advance(3)
                /\ UNCHANGED <<kind, args, domain, primaryPurpose, domainConcepts,
                               conceptNodeIds, ids, keyed>>
    /\ UNCHANGED <<handlerVars, builders>>

\* step 6, one iteration
AddKnowledgeBase ==
    /\ pc = "kbs"
    /\ LET kb == args.knowledge_bases[idx]
           r == createDomainKnowledgeBaseNode(kb, domain, nodeCount + 1)
           triggerCondition == Words(<<"questions", "about">>) \o <<SP>>
                                 \o toLowerCase(kb.name)
       IN  IF kb.name = Undefined
           THEN Throw
           ELSE /\ nodes' = Append(nodes, r.node)
                /\ nodeCount' = nodeCount + 1
                /\ edges' = Append(edges, createConditionalEdge(domain, edgeCount + 1,
                                     ids.hubId, r.id,
                                     Words(<<"asks", "about">>) \o <<SP>>
                                       \o triggerCondition))
                /\ edgeCount' = edgeCount + 1
                /\ Advance(3)
                /\ UNCHANGED <<kind, args, domain, primaryPurpose, domainConcepts,
                               conceptNodeIds, ids, keyed>>
    /\ UNCHANGED <<handlerVars, builders>>

\* step 7 without the hub -> transfer edge
AddTransfer_NoHubEdge ==
    /\ pc = "transfers"
    /\ LET transfer == args.transfer_numbers[idx]
           r == createDomainTransferNode(transfer, domain, nodeCount + 1)
       IN  IF transfer.name = Undefined
           THEN Throw
           ELSE /\ nodes' = Append(nodes, r.node)
                /\ nodeCount' = nodeCount + 1
                /\ Advance(4)
                /\ UNCHANGED <<kind, args, edges, edgeCount, domain, primaryPurpose,
                               domainConcepts, conceptNodeIds, ids, keyed>>
    /\ UNCHANGED <<handlerVars, builders>>

\* step 7, one iteration
AddTransfer ==
    /\ pc = "transfers"
    /\ LET transfer == args.transfer_numbers[idx]
           r == createDomainTransferNode(transfer, domain, nodeCount + 1)
       IN  IF transfer.name = Undefined
           THEN Throw
           ELSE /\ nodes' = Append(nodes, r.node)
                /\ nodeCount' = nodeCount + 1
                /\ edges' = Append(edges, createConditionalEdge(domain, edgeCount + 1,
                                     ids.hubId, r.id,
                                     <<"needs", SP>> \o toLowerCase(transfer.name)))
                /\ edgeCount' = edgeCount + 1
                /\ Advance(4)
                /\ UNCHANGED <<kind, args, domain, primaryPurpose, domainConcepts,
                               conceptNodeIds, ids, keyed>>
    /\ UNCHANGED <<handlerVars, builders>>

\* step 8: the shared resolution node and the End Call node
CreateResolutionAndCompletion ==
    /\ pc = "resolution"
    /\ LET res == createDomainResolutionNode(domain, nodeCount + 1)
           com == createDomainCompletionNode(domain, nodeCount + 2)
       IN  /\ nodes' = nodes \o <<res.node, com.node>>
           /\ nodeCount' = nodeCount + 2
           /\ ids' = ("resolutionId" :> res.id) @@ ("completionId" :> com.id) @@ ids
    /\ pc' = "connect_concepts"
    /\ UNCHANGED <<kind, args, edges, edgeCount, domain, primaryPurpose,
                   domainConcepts, conceptNodeIds, keyed, idx>>
    /\ UNCHANGED <<handlerVars, builders>>

\* the resolution paths from the entries of conceptNodeIds
conceptResolutionEdges(conceptMap, resolutionId) ==
    [ i \in DOMAIN conceptMap |->
        << conceptMap[i][2], resolutionId,
           conceptMap[i][1] \o <<SP>> \o Words(<<"assistance", "complete">>) >> ]

ConnectConcepts ==
    /\ pc = "connect_concepts"
    /\ edges' = pushEdges(edges, edgeCount, domain,
                          conceptResolutionEdges(conceptNodeIds, ids.resolutionId))
    /\ edgeCount' = edgeCount + Len(conceptNodeIds)
    /\ pc' = "connect_others"
    /\ UNCHANGED <<kind, args, nodes, nodeCount, domain, primaryPurpose,
                   domainConcepts, conceptNodeIds, ids, keyed, idx>>
    /\ UNCHANGED <<handlerVars, builders>>

\* otherNodeIds without the test that leaves the resolution node out
otherNodeIds_KeepsResolution(nodeSeq, hubId, resolutionId, completionId, conceptMap) ==
    LET kept1 == SelectSeq(nodeSeq, LAMBDA node : /\ node.id # hubId
                                                  /\ node.id # completionId)
        kept2 == SelectSeq(kept1, LAMBDA node : ~mapHas(conceptMap, node.id))
    IN  [ i \in DOMAIN kept2 |-> kept2[i].id ]

\* the local otherNodeIds: this.nodes.filter(...).filter(...).map(node => node.id)
otherNodeIds(nodeSeq, hubId, resolutionId, completionId, conceptMap) ==
    LET kept1 == SelectSeq(nodeSeq, LAMBDA node : /\ node.id # hubId
                                                  /\ node.id # resolutionId
                                                  /\ node.id # completionId)
        kept2 == SelectSeq(kept1, LAMBDA node : ~mapHas(conceptMap, node.id))
    IN  [ i \in DOMAIN kept2 |-> kept2[i].id ]

otherResolutionEdges(others, resolutionId) ==
    [ i \in DOMAIN others |->
        << others[i], resolutionId, Words(<<"service", "completed", "successfully">>) >> ]

ConnectOthers ==
    /\ pc = "connect_others"
    /\ IF \/ Len(args.webhook_integrations) > 0
          \/ Len(args.knowledge_bases) > 0
          \/ Len(args.transfer_numbers) > 0
       THEN LET others == otherNodeIds(nodes, ids.hubId, ids.resolutionId,
                                       ids.completionId, conceptNodeIds)
            IN  /\ edges' = pushEdges(edges, edgeCount, domain,
                                      otherResolutionEdges(others, ids.resolutionId))
                /\ edgeCount' = edgeCount + Len(others)
       ELSE UNCHANGED <<edges, edgeCount>>
    /\ pc' = "routing"
    /\ UNCHANGED <<kind, args, nodes, nodeCount, domain, primaryPurpose,
                   domainConcepts, conceptNodeIds, ids, keyed, idx>>
    /\ UNCHANGED <<handlerVars, builders>>

\* the edges of the completion routing, as <<source, target, label>>
completionRouting(dom, hubId, resolutionId, completionId) ==
    << << resolutionId, completionId,
          Words(<<"satisfied", "with">>) \o <<SP>> \o dom \o <<SP, "service">> >>,
       << resolutionId, hubId,
          <<"additional", SP>> \o dom \o <<SP, "needs">> >> >>

\* step 9 and the return
CompletionRouting ==
    /\ pc = "routing"
    /\ edges' = pushEdges(edges, edgeCount, domain,
                          completionRouting(domain, ids.hubId, ids.resolutionId,
                                            ids.completionId))
    /\ edgeCount' = edgeCount + 2
    /\ pc' = "done"
    /\ UNCHANGED <<kind, args, nodes, nodeCount, domain, primaryPurpose,
                   domainConcepts, conceptNodeIds, ids, keyed, idx>>
    /\ UNCHANGED <<handlerVars, builders>>

-----------------------------------------------------------------------------
(* ModularPathwayBuilder and the four template builders *)

\* one chained setter call on a ModularNodeBuilder
Call(op, arg) == [ op |-> op, arg |-> arg ]
NoArg == <<>>

applySetter(b, call) ==
    CASE call.op = "asDefault"              -> asDefault(b)
      [] call.op = "asWebhook"              -> asWebhook(b, call.arg)
      [] call.op = "asKnowledgeBase"        -> asKnowledgeBase(b, call.arg)
      [] call.op = "asTransfer"             -> asTransfer(b, call.arg)
      [] call.op = "asEndCall"              -> asEndCall(b)
      [] call.op = "asStart"                -> asStart(b)
      [] call.op = "asGlobal"               -> asGlobal(b)
      [] call.op = "withVariableExtraction" -> withVariableExtraction(b, call.arg)
      [] call.op = "withFineTuning"         -> withFineTuning(b)
      [] call.op = "withDynamicData"        -> withDynamicData(b)
      [] call.op = "withCustomTools"        -> withCustomTools(b)
      [] call.op = "withAIFeatures"         -> withAIFeatures(b)
      [] call.op = "withAnalytics"          -> withAnalytics(b)

\* the fluent chain b.call1(...).call2(...)...
RECURSIVE chain(_, _)
chain(b, setterCalls) ==
    IF Len(setterCalls) = 0 THEN b
    ELSE chain(applySetter(b, setterCalls[1]), Tail(setterCalls))

\* ModularPathwayBuilder.createNode, count being the incremented nodeCount
createNode(count) == ModularNodeBuilder(<<"node", US, ToString(count)>>)

\* builder.addNode(builder.createNode(..).<calls>) for each entry of recipes
RECURSIVE addNodes(_, _, _)
addNodes(nodeSeq, count, recipes) ==
    IF Len(recipes) = 0 THEN nodeSeq
    ELSE addNodes(Append(nodeSeq, build(chain(createNode(count + 1), recipes[1]))),
                  count + 1, Tail(recipes))

\* ModularPathwayBuilder.addEdge, count being the incremented edgeCount
addEdge(count, source, target, label) ==
    [ id |-> <<"edge", US, ToString(count)>>,
      source |-> source, target |-> target, label |-> label ]

\* builder.addEdge for each <<source, target, label>> of es
RECURSIVE addEdges(_, _, _)
addEdges(edgeSeq, count, es) ==
    IF Len(es) = 0 THEN edgeSeq
    ELSE addEdges(Append(edgeSeq, addEdge(count + 1, es[1][1], es[1][2], es[1][3])),
                  count + 1, Tail(es))

\* a || b on an optional string
OrElse(value, default) == IF value = Undefined \/ value = <<>> THEN default ELSE value

\* record[key] of a Record<string, string> kept as its entries
mapGet(m, key) == LET i == CHOOSE j \in DOMAIN m : m[j][1] = key IN m[i][2]

\* record[keys[i]] = the id of the i-th node pushed after position base
RECURSIVE assignKeys(_, _, _, _)
assignKeys(m, keys, nodeSeq, base) ==
    IF Len(keys) = 0 THEN m
    ELSE assignKeys(mapSet(m, keys[1], nodeSeq[base + 1].id), Tail(keys),
                    nodeSeq, base + 1)

ServiceTypes   == { <<"billing">>, <<"technical">> }
DecisionPoints == { <<"refund">>, Words(<<"plan", "upgrade">>) }
DataPoints     == { Words(<<"Order", "Number">>) }
PhoneNumbers   == { Undefined, <<"+15550100">> }
KBContents     == { Undefined, <<"troubleshooting guides">> }

SomeVars(names) == [ i \in DOMAIN names |-> Var(<<names[i]>>, "string", "true") ]

(* buildEnterpriseSalesPathway *)

salesNodes(a) ==
    << << Call("asGlobal", NoArg), Call("withAIFeatures", NoArg) >>,
       << Call("asStart", NoArg),
          Call("withVariableExtraction",
               SomeVars(<<"company_name", "company_size", "annual_revenue",
                          "current_solution", "decision_timeframe",
                          "budget_authority", "pain_points">>)),
          Call("withAIFeatures", NoArg), Call("withAnalytics", NoArg) >>,
       << Call("withCustomTools", NoArg) >>,
       << Call("asGlobal", NoArg), Call("withFineTuning", NoArg) >>,
       << Call("withDynamicData", NoArg) >>,
       << Call("withVariableExtraction",
               SomeVars(<<"preferred_demo_time", "key_stakeholders",
                          "technical_requirements">>)) >>,
       << Call("withVariableExtraction",
               SomeVars(<<"follow_up_timeframe", "information_interests">>)) >>,
       << Call("asTransfer", OrElse(a.transfer_number, <<"+1-800-ENTERPRISE">>)) >>,
       << Call("asEndCall", NoArg) >> >>

\* the sales edges without the nurture -> completion edge
salesEdges_NurtureUnfinished(i) ==
    << << i.qualificationHubId, i.leadScoringId, <<"completed qualification questions">> >>,
       << i.leadScoringId, i.highValueId,  <<"high-value enterprise prospect">> >>,
       << i.leadScoringId, i.qualifiedId,  <<"qualified enterprise prospect">> >>,
       << i.leadScoringId, i.nurtureId,    <<"prospect needs nurturing">> >>,
       << i.highValueId,   i.transferId,   <<"ready for executive consultation">> >>,
       << i.qualifiedId,   i.transferId,   <<"ready for detailed demo">> >>,
       << i.transferId,    i.completionId, <<"transfer completed">> >> >>

salesEdges(i) ==
    << << i.qualificationHubId, i.leadScoringId, <<"completed qualification questions">> >>,
       << i.leadScoringId, i.highValueId,  <<"high-value enterprise prospect">> >>,
       << i.leadScoringId, i.qualifiedId,  <<"qualified enterprise prospect">> >>,
       << i.leadScoringId, i.nurtureId,    <<"prospect needs nurturing">> >>,
       << i.highValueId,   i.transferId,   <<"ready for executive consultation">> >>,
       << i.qualifiedId,   i.transferId,   <<"ready for detailed demo">> >>,
       << i.transferId,    i.completionId, <<"transfer completed">> >>,
       << i.nurtureId,     i.completionId, <<"nurture process complete">> >> >>

\* the local constant names[j] holds the id of the j-th node of nodeSeq after base
namedIds(names, nodeSeq, base) ==
    [ v \in { names[j] : j \in DOMAIN names } |->
        nodeSeq[base + (CHOOSE j \in DOMAIN names : names[j] = v)].id ]

SalesCreateNodes ==
    /\ pc = "idle"
    /\ Constructing({"create_enterprise_sales_pathway"})
    /\ \E number \in OptionInputs(PhoneNumbers) :
         /\ args' = [NoArgs EXCEPT !.transfer_number = number]
         /\ nodes' = addNodes(nodes, nodeCount, salesNodes(args'))
    /\ nodeCount' = nodeCount + 9
    /\ ids' = namedIds(<<"helpNodeId", "qualificationHubId", "leadScoringId",
                         "objectionNodeId", "highValueId", "qualifiedId",
                         "nurtureId", "transferId", "completionId">>, nodes', 0)
    /\ kind' = "sales"
    /\ pc' = "sales_edges"
    /\ UNCHANGED <<edges, edgeCount, domain, primaryPurpose, domainConcepts,
                   conceptNodeIds, keyed, idx>>
    /\ UNCHANGED <<handlerVars, builders>>

SalesAddEdges ==
    /\ pc = "sales_edges"
    /\ edges' = addEdges(edges, edgeCount, salesEdges(ids))
    /\ edgeCount' = edgeCount + Len(salesEdges(ids))
    /\ pc' = "done"
    /\ UNCHANGED <<kind, args, nodes, nodeCount, domain, primaryPurpose,
                   domainConcepts, conceptNodeIds, ids, keyed, idx>>
    /\ UNCHANGED <<handlerVars, builders>>

(* buildAdvancedCustomerServicePathway *)

serviceHeadNodes(a) ==
    << << Call("asGlobal", NoArg),
          Call("asTransfer", OrElse(a.escalation_number, <<"+1-800-ESCALATE">>)) >>,
       << Call("asStart", NoArg),
          Call("withVariableExtraction",
               SomeVars(<<"customer_email", "issue_category", "urgency_level",
                          "previous_ticket">>)),
          Call("withAIFeatures", NoArg) >>,
       << Call("withCustomTools", NoArg) >> >>

specialistNode(serviceType) ==
    << Call("withVariableExtraction",
            << Var(serviceType \o <<US, "details">>, "string", "true"),
               Var(serviceType \o <<US, "resolution", US, "preference">>,
                   "string", "false") >>),
       Call("withDynamicData", NoArg),
       Call("withAnalytics", NoArg) >>

serviceTailNodes(a) ==
    << << Call("asKnowledgeBase",
               OrElse(a.knowledge_base_content,
                      <<"Comprehensive customer service knowledge base">>)) >>,
       << Call("withVariableExtraction",
               SomeVars(<<"satisfaction_rating", "service_feedback",
                          "follow_up_needed">>)),
          Call("withAnalytics", NoArg) >>,
       << Call("asEndCall", NoArg) >> >>

serviceEdges(a, i, specialistNodes) ==
    << << i.serviceHubId, i.classificationId, <<"issue information collected">> >> >>
    \o [ j \in DOMAIN a.service_types |->
           << i.classificationId, mapGet(specialistNodes, a.service_types[j]),
              Words(<<"issue", "classified", "as">>) \o <<SP>> \o a.service_types[j] >> ]
    \o << << i.classificationId, i.knowledgeBaseId, <<"needs knowledge base search">> >> >>
    \o [ j \in DOMAIN a.service_types |->
           << mapGet(specialistNodes, a.service_types[j]), i.satisfactionId,
              a.service_types[j] \o <<SP>> \o Words(<<"issue", "resolved">>) >> ]
    \o << << i.knowledgeBaseId, i.satisfactionId, <<"information provided">> >>,
          << i.satisfactionId, i.completionId, <<"satisfaction survey complete">> >> >>

ServiceCreateNodes ==
    /\ pc = "idle"
    /\ Constructing({"create_ai_customer_service_pathway"})
    /\ \E types \in ListInputs(ServiceTypes),
          number \in OptionInputs(PhoneNumbers), content \in OptionInputs(KBContents) :
         LET a  == [NoArgs EXCEPT !.service_types = types,
                                  !.escalation_number = number,
                                  !.knowledge_base_content = content]
             n1 == addNodes(nodes, nodeCount, serviceHeadNodes(a))
             n2 == addNodes(n1, nodeCount + 3,
                            [ j \in DOMAIN types |-> specialistNode(types[j]) ])
             n3 == addNodes(n2, nodeCount + 3 + Len(types), serviceTailNodes(a))
         IN  /\ args' = a
             /\ nodes' = n3
             /\ nodeCount' = nodeCount + 6 + Len(types)
             /\ keyed' = assignKeys(keyed, types, n2, 3)
             /\ ids' = namedIds(<<"escalationNodeId", "serviceHubId",
                                  "classificationId">>, n3, 0)
                       @@ namedIds(<<"knowledgeBaseId", "satisfactionId",
                                     "completionId">>, n3, 3 + Len(types))
    /\ kind' = "service"
    /\ pc' = "service_edges"
    /\ UNCHANGED <<edges, edgeCount, domain, primaryPurpose, domainConcepts,
                   conceptNodeIds, idx>>
    /\ UNCHANGED <<handlerVars, builders>>

ServiceAddEdges ==
    /\ pc = "service_edges"
    /\ edges' = addEdges(edges, edgeCount, serviceEdges(args, ids, keyed))
    /\ edgeCount' = edgeCount + Len(serviceEdges(args, ids, keyed))
    /\ pc' = "done"
    /\ UNCHANGED <<kind, args, nodes, nodeCount, domain, primaryPurpose,
                   domainConcepts, conceptNodeIds, ids, keyed, idx>>
    /\ UNCHANGED <<handlerVars, builders>>

(* buildIntelligentAppointmentSystem *)

appointmentNodes ==
    << << Call("asGlobal", NoArg),
          Call("withVariableExtraction",
               SomeVars(<<"current_appointment_id", "preferred_new_time",
                          "reason_for_change">>)) >>,
       << Call("asStart", NoArg),
          Call("withVariableExtraction",
               SomeVars(<<"customer_name", "customer_phone", "customer_email",
                          "service_requested", "preferred_date", "preferred_time">>)),
          Call("withAIFeatures", NoArg) >>,
       << Call("withCustomTools", NoArg) >>,
       << Call("withDynamicData", NoArg) >>,
       << Call("withVariableExtraction",
               SomeVars(<<"confirmation_agreed", "special_requests",
                          "preferred_reminder_method">>)) >>,
       << Call("withDynamicData", NoArg), Call("withAnalytics", NoArg) >>,
       << Call("withVariableExtraction", SomeVars(<<"selected_alternative">>)) >>,
       << Call("asEndCall", NoArg) >> >>

appointmentEdges(i) ==
    << << i.bookingHubId, i.serviceSelectionId, <<"service interest expressed">> >>,
       << i.serviceSelectionId, i.availabilityId, <<"service selected">> >>,
       << i.availabilityId, i.confirmationId, <<"preferred time available">> >>,
       << i.availabilityId, i.alternativeTimesId, <<"preferred time not available">> >>,
       << i.alternativeTimesId, i.confirmationId, <<"alternative time selected">> >>,
       << i.confirmationId, i.bookingCompleteId, <<"appointment confirmed">> >>,
       << i.bookingCompleteId, i.completionId, <<"booking process complete">> >> >>

AppointmentCreateNodes ==
    /\ pc = "idle"
    /\ Constructing({"create_intelligent_appointment_system"})
    /\ \E types \in ListInputs(ServiceTypes) :
         args' = [NoArgs EXCEPT !.service_types = types]
    /\ nodes' = addNodes(nodes, nodeCount, appointmentNodes)
    /\ nodeCount' = nodeCount + 8
    /\ ids' = namedIds(<<"rescheduleNodeId", "bookingHubId", "serviceSelectionId",
                         "availabilityId", "confirmationId", "bookingCompleteId",
                         "alternativeTimesId", "completionId">>, nodes', 0)
    /\ kind' = "appointment"
    /\ pc' = "appointment_edges"
    /\ UNCHANGED <<edges, edgeCount, domain, primaryPurpose, domainConcepts,
                   conceptNodeIds, keyed, idx>>
    /\ UNCHANGED <<handlerVars, builders>>

AppointmentAddEdges ==
    /\ pc = "appointment_edges"
    /\ edges' = addEdges(edges, edgeCount, appointmentEdges(ids))
    /\ edgeCount' = edgeCount + Len(appointmentEdges(ids))
    /\ pc' = "done"
    /\ UNCHANGED <<kind, args, nodes, nodeCount, domain, primaryPurpose,
                   domainConcepts, conceptNodeIds, ids, keyed, idx>>
    /\ UNCHANGED <<handlerVars, builders>>

(* buildCustomWorkflowPathway *)

workflowHeadNodes(a) ==
    << << Call("asGlobal", NoArg) >>,
       << Call("asStart", NoArg),
          Call("withVariableExtraction",
               [ j \in DOMAIN a.required_data_points |->
                   Var(replaceWhitespace(toLowerCase(a.required_data_points[j])),
                       "string", IF j - 1 < 3 THEN "true" ELSE "false") ]),
          Call("withAIFeatures", NoArg) >> >>

decisionNode == << Call("withCustomTools", NoArg) >>

workflowTailNodes(a) ==
    << << Call("withDynamicData", NoArg) >> >>
    \o (IF a.global_fallbacks THEN << << Call("asGlobal", NoArg) >> >> ELSE <<>>)
    \o << << Call("withAnalytics", NoArg) >>,
          << Call("asEndCall", NoArg) >> >>

\* the chain of decision points, from iteration j on, currentNodeId being the
\* node the previous iteration left
RECURSIVE decisionChain(_, _, _, _, _)
decisionChain(points, decisionNodes, processorId, currentNodeId, j) ==
    IF j > Len(points) THEN <<>>
    ELSE LET decisionPoint == points[j]
             nextNodeId == IF j - 1 < Len(points) - 1
                           THEN mapGet(decisionNodes, points[j + 1])
                           ELSE processorId
         IN  << << currentNodeId, mapGet(decisionNodes, decisionPoint),
                   decisionPoint \o <<SP>> \o Words(<<"decision", "needed">>) >>,
                << mapGet(decisionNodes, decisionPoint), nextNodeId,
                   decisionPoint \o <<SP>> \o Words(<<"decision", "made">>) >> >>
             \o decisionChain(points, decisionNodes, processorId,
                              mapGet(decisionNodes, decisionPoint), j + 1)

workflowEdges(a, i, decisionNodes) ==
    (IF Len(a.decision_points) > 0
     THEN decisionChain(a.decision_points, decisionNodes, i.processorId, i.entryId, 1)
     ELSE << << i.entryId, i.processorId, <<"workflow ready for processing">> >> >>)
    \o << << i.processorId, i.resultsId, <<"workflow processing complete">> >>,
          << i.resultsId, i.completionId, <<"results delivered">> >> >>

WorkflowCreateNodes ==
    /\ pc = "idle"
    /\ Constructing({"create_custom_workflow_pathway"})
    /\ \E points \in ListInputs(DecisionPoints),
          data \in SeqsUpTo(DataPoints, 1),
          fallbacks \in (IF Overlapping THEN {FALSE} ELSE BOOLEAN) :
         LET a  == [NoArgs EXCEPT !.decision_points = points,
                                  !.required_data_points = data,
                                  !.global_fallbacks = fallbacks]
             n1 == addNodes(nodes, nodeCount, workflowHeadNodes(a))
             n2 == addNodes(n1, nodeCount + 2, [ j \in DOMAIN points |-> decisionNode ])
             n3 == addNodes(n2, nodeCount + 2 + Len(points), workflowTailNodes(a))
             f  == IF fallbacks THEN 1 ELSE 0
         IN  /\ args' = a
             /\ nodes' = n3
             /\ nodeCount' = nodeCount + Len(n3)
             /\ keyed' = assignKeys(keyed, points, n2, 2)
             /\ ids' = namedIds(<<"helpNodeId", "entryId">>, n3, 0)
                       @@ namedIds(<<"processorId">>, n3, 2 + Len(points))
                       @@ (IF fallbacks
                           THEN namedIds(<<"fallbackNodeId">>, n3, 3 + Len(points))
                           ELSE <<>>)
                       @@ namedIds(<<"resultsId", "completionId">>, n3,
                                   3 + Len(points) + f)
    /\ kind' = "workflow"
    /\ pc' = "workflow_edges"
    /\ UNCHANGED <<edges, edgeCount, domain, primaryPurpose, domainConcepts,
                   conceptNodeIds, idx>>
    /\ UNCHANGED <<handlerVars, builders>>

WorkflowAddEdges ==
    /\ pc = "workflow_edges"
    /\ edges' = addEdges(edges, edgeCount, workflowEdges(args, ids, keyed))
    /\ edgeCount' = edgeCount + Len(workflowEdges(args, ids, keyed))
    /\ pc' = "done"
    /\ UNCHANGED <<kind, args, nodes, nodeCount, domain, primaryPurpose,
                   domainConcepts, conceptNodeIds, ids, keyed, idx>>
    /\ UNCHANGED <<handlerVars, builders>>

-----------------------------------------------------------------------------
(* The tool handlers and the remote pathway service *)

\* a { nodes, edges } structure; builder is the builder object whose arrays
\* these are (0: none)
NoGraph == [ nodes |-> <<>>, edges |-> <<>>, builder |-> 0 ]

\* the locals of a handler invocation that has not started
NewCall ==
    [ st         |-> "new",
      tool       |-> "none",
      pathway_id |-> 0,
      raw        |-> <<<<>>, <<>>, <<>>>>,
      parsedArgs |-> <<<<>>, <<>>, <<>>>>,
      args       |-> NoArgs,
      extracted  |-> [ domain |-> <<>>, primaryPurpose |-> <<>>, domainConcepts |-> <<>> ],
      sent       |-> NoGraph,
      failure    |-> "none",
      result     |-> [ pending |-> TRUE ] ]

\* the messages of the errors a remote call rejects with
RemoteErrors == { "Network Error", "Request failed with status code 500" }
InvalidResponse == "Invalid response structure: pathway_id not found"

\* the errors a remote call is rejected with
RejectionInputs == IF Overlapping THEN { "Network Error" } ELSE RemoteErrors
TypeErrorMessage == "Cannot read properties of undefined (reading 'replace')"

\* a catch block that reports a fixed text instead of error.message
failureResult_FixedText(error) == [ success |-> FALSE, error |-> "Tool execution failed" ]

\* the object returned by the catch block of a handler
failureResult(error) == [ success |-> FALSE, error |-> error.message ]

\* the object a handler returns after updatePathway has resolved
successResult(tool, pathway_id, a, structure) ==
    CASE tool = "create_modular_pathway" ->
           [ success              |-> TRUE,
             pathway_id           |-> pathway_id,
             total_nodes          |-> Len(structure.nodes),
             total_edges          |-> Len(structure.edges),
             webhook_integrations |-> Len(a.webhook_integrations),
             knowledge_bases      |-> Len(a.knowledge_bases),
             transfer_numbers     |-> Len(a.transfer_numbers) ]
      [] tool = "create_unlimited_complexity_pathway" ->
           [ success              |-> TRUE,
             pathway_id           |-> pathway_id,
             total_nodes          |-> Len(structure.nodes),
             total_edges          |-> Len(structure.edges),
             webhook_integrations |-> Len(a.webhook_integrations),
             knowledge_bases      |-> Len(a.knowledge_bases) ]
      [] tool = "create_custom_workflow_pathway" ->
           [ success         |-> TRUE,
             pathway_id      |-> pathway_id,
             nodes_created   |-> Len(structure.nodes),
             edges_created   |-> Len(structure.edges),
             decision_points |-> Len(a.decision_points) ]
      [] OTHER ->
           [ success |-> TRUE, pathway_id |-> pathway_id ]

\* one builder object kept at module level and used by every invocation
NewBuilder_Shared ==
    /\ UNCHANGED instance
    /\ UNCHANGED <<builderVars, builders>>

\* new DomainSpecificBranchingBuilder() / new ModularPathwayBuilder(): a new
\* object with the field initialisers of the class
NewBuilder ==
    /\ instance' = instance + 1
    /\ kind' = "none"
    /\ args' = NoArgs
    /\ nodes' = <<>>
    /\ edges' = <<>>
    /\ nodeCount' = 0
    /\ edgeCount' = 0
    /\ domain' = <<>>
    /\ primaryPurpose' = <<>>
    /\ domainConcepts' = <<>>
    /\ conceptNodeIds' = <<>>
    /\ ids' = <<>>
    /\ keyed' = <<>>
    /\ idx' = 1
    /\ builders' = <<>>

\* the server calls tool.handler; the handler runs up to
\* await blandClient.createPathway(...)
Invoke(h) ==
    /\ self = 0
    /\ calls[h].st = "new"
    /\ \A g \in DOMAIN calls : g < h => calls[g].st # "new"
    /\ \/ \E tool \in DomainTools, raw \in RawIntegrationInputs :
            calls' = [calls EXCEPT ![h].st = "creating", ![h].tool = tool,
                                   ![h].raw = raw,
                                   ![h].parsedArgs = [ k \in 1..3 |-> parseOrEmpty(k, raw[k]) ]]
       \/ \E tool \in TemplateTools :
            calls' = [calls EXCEPT ![h].st = "creating", ![h].tool = tool]
    /\ UNCHANGED <<pc, builderVars, builders, self, remote, instance>>

\* POST /pathway/create answers with a pathway id; the handler goes on to
\* construct its builder
CreatePathwayResolves(h) ==
    /\ self = 0
    /\ calls[h].st = "creating"
    /\ remote' = Append(remote, NoGraph)
    /\ calls' = [calls EXCEPT ![h].st = "building",
                              ![h].pathway_id = Len(remote) + 1]
    /\ self' = h
    /\ pc' = "idle"
    /\ NewBuilder

\* createPathway rethrows; the catch block of the handler returns
CreatePathwayRejects(h) ==
    /\ self = 0
    /\ calls[h].st = "creating"
    /\ \E message \in RejectionInputs \cup { InvalidResponse } :
         calls' = [calls EXCEPT ![h].st = "returned",
                                ![h].failure = message,
                                ![h].result = failureResult([message |-> message])]
    /\ UNCHANGED <<pc, builderVars, builders, self, remote, instance>>

\* the persist call moved ahead of the last construction step
CallUpdatePathway_BeforeRouting ==
    /\ pc \in {"routing", "done"}
    /\ self # 0
    /\ calls[self].st = "building"
    /\ calls' = [calls EXCEPT ![self].st = "updating",
                              ![self].args = args,
                              ![self].extracted = [ domain |-> domain,
                                                    primaryPurpose |-> primaryPurpose,
                                                    domainConcepts |-> domainConcepts ],
                              ![self].sent = [ nodes   |-> nodes,
                                               edges   |-> edges,
                                               builder |-> instance ]]
    /\ self' = 0
    /\ UNCHANGED <<pc, builderVars, builders, remote, instance>>

\* the builder function has returned; the handler runs up to
\* await blandClient.updatePathway(pathway_id, ..., nodes, edges)
CallUpdatePathway ==
    /\ pc = "done"
    /\ self # 0
    /\ calls[self].st = "building"
    /\ calls' = [calls EXCEPT ![self].st = "updating",
                              ![self].args = args,
                              ![self].extracted = [ domain |-> domain,
                                                    primaryPurpose |-> primaryPurpose,
                                                    domainConcepts |-> domainConcepts ],
                              ![self].sent = [ nodes   |-> nodes,
                                               edges   |-> edges,
                                               builder |-> instance ]]
    /\ self' = 0
    /\ UNCHANGED <<pc, builderVars, builders, remote, instance>>

\* POST /pathway/{id} stores the payload; the handler returns its summary
UpdatePathwayResolves(h) ==
    /\ self = 0
    /\ calls[h].st = "updating"
    /\ remote' = [remote EXCEPT ![calls[h].pathway_id] = calls[h].sent]
    /\ calls' = [calls EXCEPT ![h].st = "returned",
                              ![h].result = successResult(calls[h].tool,
                                                          calls[h].pathway_id,
                                                          calls[h].args,
                                                          calls[h].sent)]
    /\ UNCHANGED <<pc, builderVars, builders, self, instance>>

\* updatePathway rethrows; the catch block of the handler returns
UpdatePathwayRejects(h) ==
    /\ self = 0
    /\ calls[h].st = "updating"
    /\ \E message \in RejectionInputs :
         calls' = [calls EXCEPT ![h].st = "returned",
                                ![h].failure = message,
                                ![h].result = failureResult([message |-> message])]
    /\ UNCHANGED <<pc, builderVars, builders, self, remote, instance>>

\* the builder function threw; the catch block of the handler returns
CatchBuildError ==
    /\ pc = "threw"
    /\ self # 0
    /\ calls[self].st = "building"
    /\ calls' = [calls EXCEPT ![self].st = "returned",
                              ![self].result =
                                  failureResult([message |-> TypeErrorMessage])]
    /\ self' = 0
    /\ UNCHANGED <<pc, builderVars, builders, remote, instance>>

-----------------------------------------------------------------------------

\* n handler invocations to come, nothing constructed, nothing stored
InitWith(n) ==
    /\ calls = [h \in 1..n |-> NewCall]
    /\ self = 0
    /\ remote = <<>>
    /\ instance = 0
    /\ pc = "idle"
    /\ kind = "none"
    /\ args = NoArgs
    /\ nodes = <<>>
    /\ edges = <<>>
    /\ nodeCount = 0
    /\ edgeCount = 0
    /\ domain = <<>>
    /\ primaryPurpose = <<>>
    /\ domainConcepts = <<>>
    /\ conceptNodeIds = <<>>
    /\ ids = <<>>
    /\ keyed = <<>>
    /\ idx = 1
    /\ builders = <<>>

\* one invocation
Init == InitWith(1)

\* overlapping invocations
InitOverlap == InitWith(MaxInvocations)

Next ==
    \/ \E h \in DOMAIN calls : Invoke(h)
    \/ \E h \in DOMAIN calls : CreatePathwayResolves(h)
    \/ \E h \in DOMAIN calls : CreatePathwayRejects(h)
    \/ CallUpdatePathway
    \/ \E h \in DOMAIN calls : UpdatePathwayResolves(h)
    \/ \E h \in DOMAIN calls : UpdatePathwayRejects(h)
    \/ CatchBuildError
    \/ StartBuildFromDescription
    \/ AddConcept
    \/ AddWebhook
    \/ AddKnowledgeBase
    \/ AddTransfer
    \/ CreateResolutionAndCompletion
    \/ ConnectConcepts
    \/ ConnectOthers
    \/ CompletionRouting
    \/ SalesCreateNodes
    \/ SalesAddEdges
    \/ ServiceCreateNodes
    \/ ServiceAddEdges
    \/ AppointmentCreateNodes
    \/ AppointmentAddEdges
    \/ WorkflowCreateNodes
    \/ WorkflowAddEdges

Spec == Init /\ [][Next]_vars

SpecOverlap == InitOverlap /\ [][Next]_vars

-----------------------------------------------------------------------------
(* ModularPathwayBuilder and ModularNodeBuilder used call by call *)

\* the setter calls that are chained: a type setter with a payload and one
\* without
SetterInputs ==
    { Call("asWebhook", <<"https://crm.example/hook">>),
      Call("asEndCall", NoArg) }

\* builder.createNode(name): a new ModularNodeBuilder.  chained counts the
\* setter calls made on it; dataOf holds the positions of the nodes whose
\* data object is the nodeData object of this builder
CreateNode ==
    /\ Len(builders) < MaxNodeBuilders
    /\ nodeCount' = nodeCount + 1
    /\ builders' = Append(builders, [ b       |-> createNode(nodeCount + 1),
                                      chained |-> 0,
                                      dataOf  |-> {} ])
    /\ UNCHANGED <<pc, kind, args, nodes, edges, edgeCount, domain, primaryPurpose,
                   domainConcepts, conceptNodeIds, ids, keyed, idx, handlerVars>>

\* one setter call on the builder n: it assigns to this.nodeType and to
\* properties of this.nodeData, whoever else refers to that object
ChainSetter(n, call) ==
    /\ builders[n].chained < MaxNodeBuilders
    /\ LET after == applySetter(builders[n].b, call)
       IN  /\ builders' = [builders EXCEPT ![n].b = after,
                                           ![n].chained = @ + 1]
           /\ nodes' = [ i \in DOMAIN nodes |->
                           IF i \in builders[n].dataOf
                           THEN [nodes[i] EXCEPT !.data = after.nodeData]
                           ELSE nodes[i] ]
    /\ UNCHANGED <<pc, kind, args, edges, nodeCount, edgeCount, domain,
                   primaryPurpose, domainConcepts, conceptNodeIds, ids, keyed, idx,
                   handlerVars>>

\* addNode with a build() that hands out this.nodeData itself
AddNode_SharedData(n) ==
    /\ Len(nodes) < MaxNodeBuilders
    /\ LET typed == [builders[n].b EXCEPT !.nodeData.type = builders[n].b.nodeType]
       IN  /\ builders' = [builders EXCEPT ![n].b = typed,
                                           ![n].dataOf = @ \cup { Len(nodes) + 1 }]
           /\ nodes' = [ i \in 1..(Len(nodes) + 1) |->
                           IF i = Len(nodes) + 1
                           THEN [ id |-> typed.nodeId, type |-> typed.nodeType,
                                  data |-> typed.nodeData ]
                           ELSE IF i \in builders[n].dataOf
                           THEN [nodes[i] EXCEPT !.data = typed.nodeData]
                           ELSE nodes[i] ]
    /\ UNCHANGED <<pc, kind, args, edges, nodeCount, edgeCount, domain,
                   primaryPurpose, domainConcepts, conceptNodeIds, ids, keyed, idx,
                   handlerVars>>

\* builder.addNode(nodeBuilder): build() makes a node with a data object of
\* its own, which is pushed
AddNode(n) ==
    /\ Len(nodes) < MaxNodeBuilders
    /\ nodes' = Append(nodes, build(builders[n].b))
    /\ UNCHANGED <<pc, kind, args, edges, nodeCount, edgeCount, domain,
                   primaryPurpose, domainConcepts, conceptNodeIds, ids, keyed, idx,
                   handlerVars, builders>>

NextNodeBuilder ==
    \/ CreateNode
    \/ \E n \in DOMAIN builders, call \in SetterInputs : ChainSetter(n, call)
    \/ \E n \in DOMAIN builders : AddNode(n)

\* a new ModularPathwayBuilder, driven call by call
SpecNodeBuilder == Init /\ [][NextNodeBuilder]_vars

-----------------------------------------------------------------------------
(* Graph vocabulary of the claims *)

NodeIds == { nodes[i].id : i \in DOMAIN nodes }

\* a builder function has returned its graph
Returned == pc = "done"

\* buildFromDescription has returned its graph
AssemblerReturned == pc = "done" /\ kind = "domain"

\* the numbers k, m, n, p of the run
NumConcepts  == Len(domainConcepts)
NumWebhooks  == Len(args.webhook_integrations)
NumKBs       == Len(args.knowledge_bases)
NumTransfers == Len(args.transfer_numbers)

\* the positions of the nodes of a type
NodesOfType(t) == { i \in DOMAIN nodes : nodes[i].type = t }

StartNodes == { i \in DOMAIN nodes : nodes[i].data.isStart }

\* the ids reachable from the ids in S by following edges forward
RECURSIVE ReachableFrom(_)
ReachableFrom(S) ==
    LET T == S \cup { edges[i].target : i \in { j \in DOMAIN edges : edges[j].source \in S } }
    IN  IF T = S THEN S ELSE ReachableFrom(T)

HasEdge(source, target) ==
    \E i \in DOMAIN edges : edges[i].source = source /\ edges[i].target = target

\* the number of edges from source to target
EdgeCountBetween(source, target) ==
    Cardinality({ i \in DOMAIN edges :
                    edges[i].source = source /\ edges[i].target = target })

NoDanglingEdge ==
    \A i \in DOMAIN edges :
        edges[i].source \in NodeIds /\ edges[i].target \in NodeIds

\* the positions of the concept / webhook / KB / transfer nodes of the assembler
FanOutNodes ==
    { i \in DOMAIN nodes :
        nodes[i].id \notin { ids.hubId, ids.resolutionId, ids.completionId } }

-----------------------------------------------------------------------------
(* Claims *)

C2_AllReachableFromHub ==
    AssemblerReturned =>
        \A i \in DOMAIN nodes :
            ~nodes[i].data.isGlobal => nodes[i].id \in ReachableFrom({ids.hubId})

\* C3: with no concept and no integration the assembler returns exactly the
\* 3 nodes hub, resolution, End Call, with an edge hub -> resolution, an edge
\* resolution -> End Call, and no dangling edge.
C3_DegenerateGraphWired ==
    (AssemblerReturned /\ NumConcepts = 0 /\ NumWebhooks = 0 /\ NumKBs = 0
       /\ NumTransfers = 0)
    => /\ Len(nodes) = 3
       /\ HasEdge(ids.hubId, ids.resolutionId)
       /\ HasEdge(ids.resolutionId, ids.completionId)
       /\ nodes[3].type = "End Call" /\ nodes[3].id = ids.completionId
       /\ NoDanglingEdge

\* C4: in the returned assembler graph each concept / webhook / KB / transfer
\* node has exactly one edge into the resolution node.
C4_OneCompletionEdgeEach ==
    AssemblerReturned =>
        \A i \in FanOutNodes : EdgeCountBetween(nodes[i].id, ids.resolutionId) = 1

\* C5: the returned assembler graph has exactly 1 + k + m + n + p + 2 nodes.
C5_NodeCount ==
    AssemblerReturned =>
        Len(nodes) = 1 + NumConcepts + NumWebhooks + NumKBs + NumTransfers + 2

\* a returned graph with concepts and a webhook descriptor that has no url
C5_Witness ==
    /\ AssemblerReturned
    /\ NumConcepts >= 2
    /\ \E j \in DOMAIN args.webhook_integrations :
           args.webhook_integrations[j].url = Undefined
    /\ NumKBs + NumTransfers >= 1

\* C6: at every point of every build no two nodes share an id.
C6_UniqueNodeIds ==
    \A i, j \in DOMAIN nodes : i # j => nodes[i].id # nodes[j].id

\* a returned assembler graph built from two integrations of the same name
C6_Witness ==
    /\ AssemblerReturned
    /\ \E i, j \in DOMAIN args.webhook_integrations :
           i # j /\ args.webhook_integrations[i].name = args.webhook_integrations[j].name

\* C7: every returned graph (assembler or template) has exactly one node
\* with isStart = true.
C7_ExactlyOneStart == Returned => Cardinality(StartNodes) = 1

\* a returned assembler graph with concept nodes
C7_Witness == AssemblerReturned /\ NumConcepts >= 1 /\ Len(nodes) >= 4

\* C8: every returned graph (assembler or template) has exactly one node of
\* type End Call.
C8_ExactlyOneEndCall == Returned => Cardinality(NodesOfType("End Call")) = 1

\* a returned assembler graph with integrations
C8_Witness == AssemblerReturned /\ NumWebhooks + NumKBs + NumTransfers >= 2

\* C9: a webhook descriptor without a url is skipped: the returned graph has
\* a Webhook node (and its hub edge) only for the descriptors that carry a url.
C9_UrlLessWebhookSkipped ==
    AssemblerReturned =>
        /\ Cardinality(NodesOfType("Webhook")) =
             Cardinality({ j \in DOMAIN args.webhook_integrations :
                             args.webhook_integrations[j].url # Undefined })
        /\ \A i \in NodesOfType("Webhook") : nodes[i].data.webhookUrl # Undefined

\* C10: at every point, every Webhook node has a webhook url, every Knowledge
\* Base node has content and every Transfer Node has a transfer number.
C10_PayloadPopulated ==
    \A i \in DOMAIN nodes :
        /\ nodes[i].type = "Webhook" => nodes[i].data.webhookUrl # Undefined
        /\ nodes[i].type = "Knowledge Base" => nodes[i].data.kb # Undefined
        /\ nodes[i].type = "Transfer Node" => nodes[i].data.transferNumber # Undefined

-----------------------------------------------------------------------------
(* Vocabulary of the concept and path claims *)

\* the slug of a concept type
ConceptType(typeWords) == replaceWhitespace(Words(typeWords))

UrgentAssistance == ConceptType(<<"urgent", "assistance">>)
FamilyCoverage   == ConceptType(<<"family", "coverage">>)
BudgetPlans      == ConceptType(<<"budget", "plans">>)

UrgencyKeywords ==
    { <<"urgent">>, <<"immediate">>, <<"emergency">>, <<"asap">>,
      Words(<<"right", "away">>) }

\* the extractor has run on args.description
Extracted == kind = "domain"

HasConcept(t) == \E i \in DOMAIN domainConcepts : domainConcepts[i].type = t

\* the names of the variables the node built for concept type t extracts
ConceptNodeVarNames(t) ==
    UNION { { nodes[i].data.extractVars[j].name : j \in DOMAIN nodes[i].data.extractVars } :
              i \in { n \in DOMAIN nodes : \E e \in DOMAIN conceptNodeIds :
                          /\ conceptNodeIds[e][1] = t
                          /\ conceptNodeIds[e][2] = nodes[n].id } }

\* the generic preference / timeline pair of concept type t
GenericVarNames(t) == { t \o <<US, "preference">>, t \o <<US, "timeline">> }

EdgePairs == { <<edges[i].source, edges[i].target>> : i \in DOMAIN edges }

\* the ids reachable from the ids in S along the pairs of E
RECURSIVE ReachVia(_, _)
ReachVia(E, S) ==
    LET T == S \cup { p[2] : p \in { q \in E : q[1] \in S } }
    IN  IF T = S THEN S ELSE ReachVia(E, T)

\* some path of at least one pair of E leads from n back to n
OnCycle(E, n) == n \in ReachVia(E, { p[2] : p \in { q \in E : q[1] = n } })

Acyclic(E) == \A n \in NodeIds : ~OnCycle(E, n)

StartIds == { nodes[i].id : i \in StartNodes }

EndCallIds == { nodes[i].id : i \in NodesOfType("End Call") }

TemplateReturned == Returned /\ kind \in {"sales", "service", "appointment", "workflow"}

-----------------------------------------------------------------------------

\* C12: the extractor's concept list is in non-decreasing priority order, and
\* when the description holds an urgency keyword urgent_assistance is its
\* first element, in every domain.
C12_SortedUrgentFirst ==
    Extracted =>
        /\ \A i, j \in DOMAIN domainConcepts :
               i < j => domainConcepts[i].priority <= domainConcepts[j].priority
        /\ containsAny(toLowerCase(args.description), UrgencyKeywords)
             => /\ Len(domainConcepts) >= 1
                /\ domainConcepts[1].type = UrgentAssistance

\* a health-insurance description with an urgency keyword after other keywords
C12_Witness ==
    /\ Extracted
    /\ domain = HealthInsurance
    /\ containsAny(toLowerCase(args.description), UrgencyKeywords)
    /\ Len(domainConcepts) >= 3

\* C13: "I need insurance right away for my family", under a name without a
\* domain keyword, yields urgent_assistance first and family_coverage second.
C13_UrgentThenFamily ==
    ( /\ Extracted
      /\ args.description = Words(<<"I", "need", "insurance", "right", "away",
                                    "for", "my", "family">>)
      /\ args.name = <<"helper">> )
    => /\ Len(domainConcepts) >= 2
       /\ domainConcepts[1].type = UrgentAssistance
       /\ domainConcepts[2].type = FamilyCoverage

\* C14: a description containing "family of four, spouse and children,
\* affordable options" yields family_coverage and budget_plans, and the node
\* of each extracts variables beyond the generic preference / timeline pair
\* (family_size and ages_of_dependents for family_coverage).
C14_FamilyAndBudgetVariables ==
    ( /\ AssemblerReturned
      /\ includes(toLowerCase(args.description),
                  Words(<<"family", "of", "four", "spouse", "and", "children",
                          "affordable", "options">>)) )
    => /\ HasConcept(FamilyCoverage)
       /\ HasConcept(BudgetPlans)
       /\ \A t \in { FamilyCoverage, BudgetPlans } :
              ConceptNodeVarNames(t) \ GenericVarNames(t) # {}
       /\ { <<"family_size">>, <<"ages_of_dependents">> }
            \subseteq ConceptNodeVarNames(FamilyCoverage)

\* C18: in every graph the assembler returns, every directed cycle contains
\* the resolution -> hub edge: without that edge the graph is acyclic.
C18_OnlyCycleThroughHub ==
    AssemblerReturned =>
        Acyclic(EdgePairs \ { <<ids.resolutionId, ids.hubId>> })

\* a returned graph in which the resolution -> hub edge closes a cycle
C18_Witness ==
    /\ AssemblerReturned
    /\ NumConcepts >= 1
    /\ NumWebhooks >= 1
    /\ OnCycle(EdgePairs, ids.hubId)

\* C19: in the graph of each template builder, for any caller-supplied lists,
\* every node other than the start node is reachable from the start node or
\* is flagged isGlobal.
C19_TemplateReachable ==
    TemplateReturned =>
        \A i \in DOMAIN nodes :
            \/ nodes[i].data.isStart
            \/ nodes[i].data.isGlobal
            \/ nodes[i].id \in ReachVia(EdgePairs, StartIds)

\* C20: in the sales template graph a path leads from the high-value node and
\* a path leads from the nurture node to the graph's only End Call node.
C20_SalesPathsMeet ==
    (Returned /\ kind = "sales") =>
        /\ Cardinality(EndCallIds) = 1
        /\ EndCallIds \subseteq ReachVia(EdgePairs, {ids.highValueId})
        /\ EndCallIds \subseteq ReachVia(EdgePairs, {ids.nurtureId})

\* a returned sales graph built without a transfer number
C20_Witness ==
    /\ Returned
    /\ kind = "sales"
    /\ args.transfer_number = Undefined
    /\ Len(edges) = 8

-----------------------------------------------------------------------------
(* Vocabulary of the handler claims *)

Invocations == DOMAIN calls

\* the handler of h has returned { success: true, ... }
Succeeded(h) == calls[h].st = "returned" /\ calls[h].failure = "none"
                  /\ calls[h].result.success

\* the handler of h has issued updatePathway
Sent(h) == calls[h].st = "updating" \/ (calls[h].st = "returned" /\ calls[h].sent.builder # 0)

\* the positions in graph g of the nodes of type t that have an incoming edge
WiredOfType(g, t) ==
    { i \in DOMAIN g.nodes :
        /\ g.nodes[i].type = t
        /\ \E e \in DOMAIN g.edges : g.edges[e].target = g.nodes[i].id }

\* a builder function is between its first and its last statement
ConstructionRunning == pc \notin {"idle", "done", "threw"}

\* the id x carries the counter value n (its last atom)
NumberedAs(x, n) == Len(x) >= 1 /\ x[Len(x)] = ToString(n)

-----------------------------------------------------------------------------

\* C11: in every successful create_modular_pathway result the reported
\* webhook_integrations, knowledge_bases and transfer_numbers equal the numbers
\* of Webhook, Knowledge Base and Transfer nodes wired into the persisted graph.
C11_ReportedCountsMatchGraph ==
    \A h \in Invocations :
        (Succeeded(h) /\ calls[h].tool = "create_modular_pathway") =>
            LET g == remote[calls[h].pathway_id]
                r == calls[h].result
            IN  /\ r.webhook_integrations = Cardinality(WiredOfType(g, "Webhook"))
                /\ r.knowledge_bases = Cardinality(WiredOfType(g, "Knowledge Base"))
                /\ r.transfer_numbers = Cardinality(WiredOfType(g, "Transfer Node"))

\* a successful create_modular_pathway result for a request with a knowledge
\* base that has no content and a webhook
C11_Witness ==
    \E h \in Invocations :
        /\ Succeeded(h)
        /\ calls[h].tool = "create_modular_pathway"
        /\ calls[h].result.webhook_integrations = 1
        /\ calls[h].result.knowledge_bases = 1
        /\ calls[h].args.knowledge_bases[1].content = Undefined

\* C15: when invocations overlap, each persists under the pathway id of its
\* own allocation call the graph of its own builder: the ids are numbered from
\* 1, no builder object serves two graphs, distinct invocations have distinct
\* pathway ids, and equal requests give equal graphs.
C15_IndependentGraphs ==
    /\ \A h \in Invocations :
          Sent(h) =>
            /\ \A i \in DOMAIN calls[h].sent.nodes :
                   NumberedAs(calls[h].sent.nodes[i].id, i)
            /\ \A i \in DOMAIN calls[h].sent.edges :
                   NumberedAs(calls[h].sent.edges[i].id, i)
            /\ Succeeded(h) => remote[calls[h].pathway_id] = calls[h].sent
    /\ \A h, g \in Invocations :
          h # g =>
            /\ (calls[h].pathway_id # 0 /\ calls[g].pathway_id # 0)
                 => calls[h].pathway_id # calls[g].pathway_id
            /\ (Sent(h) /\ Sent(g))
                 => /\ calls[h].sent.builder # calls[g].sent.builder
                    /\ (calls[h].tool = calls[g].tool /\ calls[h].args = calls[g].args)
                         => /\ calls[h].sent.nodes = calls[g].sent.nodes
                            /\ calls[h].sent.edges = calls[g].sent.edges

\* two invocations have both persisted a graph, the second one having been
\* given its pathway id while the first was still waiting for its own
C15_Witness ==
    /\ Cardinality(Invocations) >= 2
    /\ Succeeded(1)
    /\ Succeeded(2)
    /\ calls[2].pathway_id < calls[1].pathway_id
    /\ Len(calls[1].sent.nodes) >= 3
    /\ Len(calls[2].sent.nodes) >= 3

\* C16, state part: construction runs only in an invocation whose allocation
\* call has completed and which is not waiting for a remote call.
C16_AllocatedBeforeConstruction ==
    (self # 0 \/ ConstructionRunning) =>
        /\ self # 0
        /\ calls[self].st = "building"
        /\ calls[self].pathway_id \in 1..Len(remote)

\* C16, step part: no remote call is issued or answered while a builder
\* function runs, and updatePathway is issued only when the builder function
\* has returned, with its complete node and edge lists.
C16_RemoteCallsOutsideConstruction ==
    /\ (remote' # remote \/ \E h \in Invocations :
                              /\ calls'[h].st # calls[h].st
                              /\ calls'[h].st \in {"creating", "building", "updating"})
         => ~ConstructionRunning
    /\ \A h \in Invocations :
          (calls[h].st # "updating" /\ calls'[h].st = "updating")
            => /\ pc = "done"
               /\ self = h
               /\ calls'[h].sent.nodes = nodes
               /\ calls'[h].sent.edges = edges

\* C16: in every handler invocation createPathway has completed before graph
\* construction starts, no remote call happens during construction, and
\* updatePathway is issued only after construction has finished, carrying the
\* complete node and edge lists.
C16_RemoteCallsAroundConstruction ==
    []C16_AllocatedBeforeConstruction /\ [][C16_RemoteCallsOutsideConstruction]_vars

\* an invocation that went through allocation, construction and persist
C16_Witness ==
    \E h \in Invocations :
        /\ Succeeded(h)
        /\ Len(calls[h].sent.nodes) >= 4
        /\ remote[calls[h].pathway_id].nodes = calls[h].sent.nodes

\* C17 as stated: a rejected createPathway or updatePathway ends the
\* invocation with that error raised to the caller.
C17_RemoteFailureRaised ==
    \A h \in Invocations :
        calls[h].failure # "none" => calls[h].st = "raised"

\* C17: a rejected createPathway or updatePathway ends the invocation with a
\* normally returned result { success: false, error: <message of the remote
\* error> }; nothing is raised to the caller.
C17_RemoteFailureReturned ==
    \A h \in Invocations :
        calls[h].failure # "none" =>
            /\ calls[h].st = "returned"
            /\ calls[h].result.success = FALSE
            /\ calls[h].result.error = calls[h].failure

\* updatePathway rejected after the graph had been built
C17_Witness ==
    \E h \in Invocations :
        /\ calls[h].failure \in RemoteErrors
        /\ calls[h].pathway_id # 0
        /\ Len(calls[h].sent.nodes) >= 3

-----------------------------------------------------------------------------

\* the positions of the edges that leave the node with this id
OutEdges(source) == { e \in DOMAIN edges : edges[e].source = source }

\* C25: in the returned assembler graph the hub has exactly k + m + n + p
\* outgoing edges, one to each concept / webhook / KB / transfer node, and
\* each of these nodes has exactly one incoming edge from the hub.
C25_OneHubEdgePerBranch ==
    AssemblerReturned =>
        /\ Cardinality(OutEdges(ids.hubId))
             = NumConcepts + NumWebhooks + NumKBs + NumTransfers
        /\ { edges[e].target : e \in OutEdges(ids.hubId) }
             = { nodes[i].id : i \in FanOutNodes }
        /\ \A i \in FanOutNodes : EdgeCountBetween(ids.hubId, nodes[i].id) = 1

\* a returned graph with a concept, a webhook and a transfer branch
C25_Witness ==
    /\ AssemblerReturned
    /\ NumConcepts >= 1
    /\ NumWebhooks >= 1
    /\ NumTransfers >= 1
    /\ Cardinality(OutEdges(ids.hubId)) >= 3

\* C26: within an assembler run the i-th node of the node list carries the
\* counter value i in its id, the hub being the first, the i-th edge of the
\* edge list carries the counter value i, and edge ids are pairwise distinct.
C26_CountersIncrease ==
    kind = "domain" =>
        /\ Len(nodes) >= 1 => nodes[1].id = ids.hubId
        /\ \A i \in DOMAIN nodes : NumberedAs(nodes[i].id, i)
        /\ \A i \in DOMAIN edges : NumberedAs(edges[i].id, i)
        /\ \A i, j \in DOMAIN edges : i # j => edges[i].id # edges[j].id

\* a returned assembler graph with at least six nodes and seven edges
C26_Witness ==
    /\ AssemblerReturned
    /\ Len(nodes) >= 6
    /\ Len(edges) >= 7

\* C28: no graph returned by the assembler or by the custom-workflow
\* template holds two edges with the same (source, target) pair.
C28_NoParallelEdges ==
    (AssemblerReturned \/ (Returned /\ kind = "workflow")) =>
        \A i, j \in DOMAIN edges :
            i # j => <<edges[i].source, edges[i].target>>
                       # <<edges[j].source, edges[j].target>>

\* C29: in every returned graph, from every node reachable from the start
\* node (the start node included) that is not an End Call node, an End Call
\* node is reachable by following edges forward.
C29_EndCallReachable ==
    Returned =>
        \A n \in ReachVia(EdgePairs, StartIds) :
            n \notin EndCallIds => EndCallIds \cap ReachVia(EdgePairs, {n}) # {}

\* C30: a create_modular_pathway invocation that ended with success = false
\* after its allocation leaves no pathway without nodes and edges on the
\* remote service.
C30_NoEmptyPathwayLeft ==
    \A h \in Invocations :
        ( /\ calls[h].tool = "create_modular_pathway"
          /\ calls[h].st = "returned"
          /\ ~calls[h].result.success
          /\ calls[h].pathway_id # 0 )
        => remote[calls[h].pathway_id].nodes # <<>>

-----------------------------------------------------------------------------

\* the handler of h ran the Graph Assembler and has handed over its graph
AssemblerSent(h) == Sent(h) /\ calls[h].tool \in DomainTools

\* none of the three arguments the caller of h passed is valid JSON
AllBroken(h) == \A k \in 1..3 : ~JSONparse(k, calls[h].raw[k]).ok

C24_BrokenJsonGivesBasicPathway ==
    \A h \in Invocations :
        (calls[h].tool = "create_modular_pathway" /\ AllBroken(h)) =>
            /\ calls[h].parsedArgs = [ k \in 1..3 |-> <<>> ]
            /\ (calls[h].st = "returned" /\ calls[h].failure = "none")
                 => /\ calls[h].result.success
                    /\ calls[h].extracted.domainConcepts = <<>>
                         => Len(remote[calls[h].pathway_id].nodes) = 3

\* a successful create_modular_pathway invocation whose three arguments were
\* the README's wrong-way texts, for a description without concept
C24_Witness ==
    \E h \in Invocations :
        /\ calls[h].tool = "create_modular_pathway"
        /\ calls[h].raw = [ k \in 1..3 |-> WrongWay(k) ]
        /\ Succeeded(h)
        /\ calls[h].extracted.domainConcepts = <<>>
        /\ Len(remote[calls[h].pathway_id].nodes) = 3

\* C27: when create_unlimited_complexity_pathway is invoked with a feature
\* toggle set to false, no node of the generated graph carries the
\* corresponding feature block.
C27_DisabledFeaturesAbsent ==
    \A h \in Invocations :
        (calls[h].tool = "create_unlimited_complexity_pathway" /\ Sent(h)) =>
            \A i \in DOMAIN calls[h].sent.nodes :
                LET data == calls[h].sent.nodes[i].data
                    a    == calls[h].args
                IN  /\ ~a.enable_dynamic_data => ~data.dynamic_data
                    /\ ~a.enable_custom_tools => ~data.custom_tools
                    /\ ~a.enable_ai_features  => ~data.ai_features
                    /\ ~a.enable_fine_tuning  => ~data.fine_tuning
                    /\ ~a.enable_analytics    => ~data.analytics

-----------------------------------------------------------------------------

\* C21: the data.type of every node equals the node's type, in the node list
\* of the builder and in every persisted graph, whichever type setters were
\* chained on its node builder and in whatever order.
C21_DataTypeMirrorsType ==
    /\ \A i \in DOMAIN nodes : nodes[i].data.type = nodes[i].type
    /\ \A p \in DOMAIN remote :
          \A i \in DOMAIN remote[p].nodes :
              remote[p].nodes[i].data.type = remote[p].nodes[i].type

\* a node built after asWebhook and then asEndCall had been chained, next to
\* a node built from the same builder in between
C21_Witness ==
    \E i, j \in DOMAIN nodes :
        /\ i < j
        /\ nodes[i].id = nodes[j].id
        /\ nodes[i].type = "Webhook"
        /\ nodes[j].type = "End Call"
        /\ nodes[j].data.webhookUrl # Undefined

\* the nodes already in the list of a builder are the same after the step
NodesKept ==
    instance' = instance =>
        \A i \in DOMAIN nodes : i \in DOMAIN nodes' /\ nodes'[i] = nodes[i]

\* C22: no builder call, build() call or node addition changes the id, type
\* or data of a node that is already in the node list.
C22_BuiltNodesNeverChange == [][NodesKept]_vars

\* a builder was built, chained further and built again
C22_Witness ==
    /\ Len(nodes) >= 2
    /\ nodes[1].id = nodes[2].id
    /\ nodes[1].data # nodes[2].data
    /\ \E n \in DOMAIN builders : builders[n].chained >= 2

=============================================================================
